---- MODULE Spec2Model ----
(***************************************************************************)
(* State-machine model of the shift lifecycle of src/web/mvp.py: the       *)
(* in-memory Store, the policy lookup, the monthly-test check and the      *)
(* open_shift / close_shift handlers.                                      *)
(*                                                                         *)
(* Spec      every handler call is one atomic step (calls run one at a     *)
(*           time; every clock read of one call returns the same instant). *)
(* SpecConc  the handlers are `def` endpoints, which FastAPI runs on a     *)
(*           thread pool: two request threads execute open_shift and       *)
(*           close_shift in the steps between which the code holds no      *)
(*           lock, and the clock may advance between the steps.            *)
(*                                                                         *)
(* Optional values (T | None) are sequences of length <= 1: None is <<>>,  *)
(* a present value v is <<v>>.  Ids are uuid4 values in the code; a fresh  *)
(* id is modelled as the next index of the collection it is stored in.     *)
(***************************************************************************)
EXTENDS Integers, Sequences, FiniteSets, TLC

VARIABLES
    now,        \* the value _utc_now() returns, in minutes
    companies,  \* store.companies: the set of company ids
    users,      \* store.users: user id -> company_id
    locations,  \* store.locations: location id -> company_id
    policies,   \* store.policies: company id -> PolicySettings (a dict: partial)
    shifts,     \* store.shifts: the Shift records, shift id = index
    quizzes,    \* store.quizzes: the Quiz records, quiz id = index
    quiz_questions, \* store.quiz_questions: the QuizQuestion records
    quiz_attempts,  \* store.quiz_attempts: the QuizAttempt records
    resp,       \* the HTTP response of the latest atomic call
    pc,         \* SpecConc: per request thread, the step it is at
    req,        \* SpecConc: per request thread, its arguments and locals
    tresp,      \* SpecConc: per request thread, its latest response
    user_roles, \* store.users: user id -> role
    credentials, \* store.credentials: the WebCredential records
    invites,    \* store.invites: the Invite records
    sessions,   \* the bot's sessions table: Telegram user id -> Session
    sent        \* what the bot sent while it served the latest update

store == <<companies, users, locations, policies, shifts, quizzes, quiz_questions, quiz_attempts>>
threads == <<pc, req, tresp>>
accounts == <<user_roles, credentials, invites>>
bot == <<sessions, sent>>
vars == <<now, companies, users, locations, policies, shifts, quizzes, quiz_questions, quiz_attempts, resp, pc, req, tresp,
          user_roles, credentials, invites, sessions, sent>>

----------------------------------------------------------------------------
\* Bounds of the model.

\* Shifts the store may hold.
MaxShifts == 2

----------------------------------------------------------------------------
\* Optional values.

None == <<>>
Some(v) == <<v>>
\* Python truthiness of an optional string: None and "" are falsy.
Truthy(o) == o # None /\ o[1] # ""

\* timedelta(days=30), in minutes.
ThirtyDays == 30 * 24 * 60

\* The instants the clock is observed at: the start, one minute later (past a
\* deadline of 0 minutes, and 90 minutes before the third instant) and one
\* minute past a deadline of 90 minutes counted from the start.
Instants == {0, 1, 91}

----------------------------------------------------------------------------
\* PolicySettings and its defaults (the fields the shift logic reads).

DefaultDeadlineMinutes == 90

PolicySettings ==
    [ shift_close_deadline_minutes |-> DefaultDeadlineMinutes,
      require_opening_checklist |-> TRUE,
      require_closing_checklist |-> TRUE,
      require_open_photo |-> FALSE,
      require_close_photo |-> FALSE,
      require_cash_open |-> FALSE,
      require_cash_close |-> FALSE,
      tests_block_shift_closure |-> TRUE,
      monthly_test_required |-> TRUE ]

\* The policy a tenant admin submits in the model: nothing required, no
\* compliance gate, a deadline of 0 minutes.
LenientPolicy ==
    [ PolicySettings EXCEPT
        !.shift_close_deadline_minutes = 0,
        !.require_opening_checklist = FALSE,
        !.require_closing_checklist = FALSE,
        !.tests_block_shift_closure = FALSE ]

PolicyInputs == {LenientPolicy}

----------------------------------------------------------------------------
\* The bot's Session and what it sends.

\* The Telegram users that write to the bot.
TelegramUsers == {1, 2}

\* Session(): no role, no step, no data, no last_update_id.
Session == [role |-> None, step |-> None, data |-> <<>>, last_update_id |-> None]

\* The bot sent no message and no request.
NothingSent == [messages |-> <<>>, requests |-> <<>>]

----------------------------------------------------------------------------
\* Request payloads of the model.

\* Company ids a caller may send: the known ones and 0, the id of no company.
CompanyInputs == {0} \cup companies

OpenData ==
    { [open_checklist |-> <<"lights">>, open_photo_url |-> None, cash_open_amount |-> Some(100)] }

ShiftOpenRequest ==
    { [location_id |-> l, user_id |-> u, open_checklist |-> d.open_checklist,
       open_photo_url |-> d.open_photo_url, cash_open_amount |-> d.cash_open_amount] :
      l \in DOMAIN locations, u \in DOMAIN users, d \in OpenData }

ShiftCloseRequest ==
    { [close_checklist |-> <<"lock">>, close_photo_url |-> None, cash_close_amount |-> Some(150),
       write_off_reason |-> Some("spoiled"), notes |-> None],
      [close_checklist |-> <<>>, close_photo_url |-> None, cash_close_amount |-> None,
       write_off_reason |-> None, notes |-> None] }

\* Shift ids a caller may send: the known ones and 0, an id of no shift.
ShiftInputs == 0..Len(shifts)

----------------------------------------------------------------------------
\* Responses.

Ok == [status |-> 200, detail |-> "ok"]
HTTPException(status_code, detail) == [status |-> status_code, detail |-> detail]
Response(op, r) == [op |-> op, status |-> r.status, detail |-> r.detail]

NoResponse == [op |-> "none", status |-> 0, detail |-> "none"]

----------------------------------------------------------------------------
\* Store lookups.

_get_policy(company_id) ==
    IF company_id \in DOMAIN policies THEN policies[company_id] ELSE PolicySettings

_ensure_company(company_id) ==
    IF company_id \in companies THEN Ok ELSE HTTPException(404, "Company not found")

ShiftIds == 1..Len(shifts)

_filter_by_company(collection, company_id) ==
    { i \in 1..Len(collection) : collection[i].company_id = company_id }

list_shifts(company_id) == { shifts[i] : i \in _filter_by_company(shifts, company_id) }

----------------------------------------------------------------------------
\* Monthly compliance.

monthly_quiz_ids(company_id) ==
    { q \in 1..Len(quizzes) : quizzes[q].company_id = company_id /\ quizzes[q].type = "monthly" }

passed_attempts(company_id, user_id) ==
    { a \in 1..Len(quiz_attempts) :
        /\ quiz_attempts[a].quiz_id \in monthly_quiz_ids(company_id)
        /\ quiz_attempts[a].user_id = user_id
        /\ quiz_attempts[a].passed }

\* max(attempts, key=finished_at).finished_at
latest_finished_at(attempts) ==
    CHOOSE t \in { quiz_attempts[a].finished_at : a \in attempts } :
        \A a \in attempts : quiz_attempts[a].finished_at <= t

\* Mutant of _monthly_test_passed: a company without a monthly quiz has nothing
\* to pass, so its users count as compliant.
_monthly_test_passed_fail_open(company_id, user_id, t) ==
    IF ~_get_policy(company_id).monthly_test_required THEN TRUE
    ELSE IF monthly_quiz_ids(company_id) = {} THEN TRUE
    ELSE IF passed_attempts(company_id, user_id) = {} THEN FALSE
    ELSE latest_finished_at(passed_attempts(company_id, user_id)) >= t - ThirtyDays

\* Mutant of _monthly_test_passed: the 30-day window excludes its first instant.
_monthly_test_passed_exclusive(company_id, user_id, t) ==
    IF ~_get_policy(company_id).monthly_test_required THEN TRUE
    ELSE IF monthly_quiz_ids(company_id) = {} THEN FALSE
    ELSE IF passed_attempts(company_id, user_id) = {} THEN FALSE
    ELSE latest_finished_at(passed_attempts(company_id, user_id)) > t - ThirtyDays

_monthly_test_passed(company_id, user_id, t) ==
    IF ~_get_policy(company_id).monthly_test_required THEN TRUE
    ELSE IF monthly_quiz_ids(company_id) = {} THEN FALSE
    ELSE IF passed_attempts(company_id, user_id) = {} THEN FALSE
    ELSE latest_finished_at(passed_attempts(company_id, user_id)) >= t - ThirtyDays

----------------------------------------------------------------------------
\* Quizzes and quiz attempts.

\* sorted(xs), by insertion.
RECURSIVE sorted(_)
Insert(x, ys) ==
    LET k == Cardinality({ i \in 1..Len(ys) : ys[i] <= x }) IN
    SubSeq(ys, 1, k) \o <<x>> \o SubSeq(ys, k + 1, Len(ys))
sorted(xs) == IF xs = <<>> THEN <<>> ELSE Insert(Head(xs), sorted(Tail(xs)))

\* Mutant of round: the fraction is cut off, as int(x) does.
round_truncates(n, d) == n \div d

\* round(x) of Python 3 for x = n / d >= 0: to the nearest integer, a tie to
\* the even one.
round(n, d) ==
    LET q == n \div d
        r == n % d
    IN  IF 2 * r < d THEN q
        ELSE IF 2 * r > d THEN q + 1
        ELSE IF q % 2 = 0 THEN q ELSE q + 1

questions_of(quiz_id) == { i \in 1..Len(quiz_questions) : quiz_questions[i].quiz_id = quiz_id }

\* answers.get(question.id, [])
selected(answers, question_id) ==
    IF question_id \in DOMAIN answers THEN answers[question_id] ELSE <<>>

_score_attempt(quiz_id, answers) ==
    LET qs == questions_of(quiz_id)
        correct == Cardinality({ i \in qs :
                       sorted(selected(answers, i)) = sorted(quiz_questions[i].correct_answers) })
    IN  IF qs = {} THEN 0 ELSE round(correct * 100, Cardinality(qs))

Quiz(company_id, payload) ==
    [ id |-> Len(quizzes) + 1, company_id |-> company_id,
      type |-> payload.type, passing_score |-> payload.passing_score ]

\* Lines 750-761: the QuizAttempt create_quiz_attempt builds at instant t.
QuizAttempt(quiz_id, payload, t) ==
    [ id |-> Len(quiz_attempts) + 1, quiz_id |-> quiz_id, user_id |-> payload.user_id,
      started_at |-> t, finished_at |-> t,
      score |-> _score_attempt(quiz_id, payload.answers),
      passed |-> _score_attempt(quiz_id, payload.answers) >= quizzes[quiz_id].passing_score ]

----------------------------------------------------------------------------
\* open_shift.

_validate_shift_open(policy, payload) ==
    IF policy.require_opening_checklist /\ payload.open_checklist = <<>>
    THEN HTTPException(400, "Opening checklist required")
    ELSE IF policy.require_open_photo /\ ~Truthy(payload.open_photo_url)
    THEN HTTPException(400, "Opening photo required")
    ELSE IF policy.require_cash_open /\ payload.cash_open_amount = None
    THEN HTTPException(400, "Opening cash amount required")
    ELSE Ok

\* Mutant of active_shift: the search tests a status no shift ever has.
active_shift_wrong_status(company_id, user_id) ==
    { i \in ShiftIds :
        /\ shifts[i].company_id = company_id
        /\ shifts[i].user_id = user_id
        /\ shifts[i].status = "ACTIVE" }

\* Mutant of active_shift: an OPEN shift past its deadline is not counted.
active_shift_within_deadline(company_id, user_id) ==
    { i \in ShiftIds :
        /\ shifts[i].company_id = company_id
        /\ shifts[i].user_id = user_id
        /\ shifts[i].status = "OPEN"
        /\ now <= shifts[i].close_deadline_at }

\* The ids of the OPEN shifts of (company_id, user_id).
active_shift(company_id, user_id) ==
    { i \in ShiftIds :
        /\ shifts[i].company_id = company_id
        /\ shifts[i].user_id = user_id
        /\ shifts[i].status = "OPEN" }

\* Mutant of open_shift_check: the user and the location are looked up before
\* the payload is validated against the policy.
open_shift_check_lookup_first(company_id, payload) ==
    IF _ensure_company(company_id) # Ok THEN _ensure_company(company_id)
    ELSE IF payload.user_id \notin DOMAIN users THEN HTTPException(404, "User not found")
    ELSE IF payload.location_id \notin DOMAIN locations THEN HTTPException(404, "Location not found")
    ELSE IF _validate_shift_open(_get_policy(company_id), payload) # Ok
    THEN _validate_shift_open(_get_policy(company_id), payload)
    ELSE IF active_shift(company_id, payload.user_id) # {}
    THEN HTTPException(400, "User already has an open shift")
    ELSE Ok

\* Lines 537-555: the checks of open_shift, in the order of the code.
open_shift_check(company_id, payload) ==
    IF _ensure_company(company_id) # Ok THEN _ensure_company(company_id)
    ELSE IF _validate_shift_open(_get_policy(company_id), payload) # Ok
    THEN _validate_shift_open(_get_policy(company_id), payload)
    ELSE IF payload.user_id \notin DOMAIN users THEN HTTPException(404, "User not found")
    ELSE IF payload.location_id \notin DOMAIN locations THEN HTTPException(404, "Location not found")
    ELSE IF active_shift(company_id, payload.user_id) # {}
    THEN HTTPException(400, "User already has an open shift")
    ELSE Ok

\* payload.cash_open_amount or 0.0
OrZero(amount) == IF amount[1] = 0 THEN 0 ELSE amount[1]

CashLog(type, amount, created_at) == [type |-> type, amount |-> amount, created_at |-> created_at]

\* Mutant of new_shift: the cash log entry is written for a truthy amount only,
\* so an opening amount of 0 leaves no entry.
new_shift_truthy_cash(company_id, payload, policy, started_at) ==
    [ id |-> Len(shifts) + 1,
      company_id |-> company_id,
      location_id |-> payload.location_id,
      user_id |-> payload.user_id,
      start_at |-> started_at,
      end_at |-> None,
      status |-> "OPEN",
      close_deadline_at |-> started_at + policy.shift_close_deadline_minutes,
      open_data |-> [checklist |-> payload.open_checklist, photo_url |-> payload.open_photo_url],
      close_data |-> None,
      cash_logs |-> IF payload.cash_open_amount # None /\ payload.cash_open_amount[1] # 0
                    THEN <<CashLog("open", OrZero(payload.cash_open_amount), started_at)>>
                    ELSE <<>> ]

\* Lines 556-577: the Shift open_shift builds; started_at is its clock read.
new_shift(company_id, payload, policy, started_at) ==
    [ id |-> Len(shifts) + 1,
      company_id |-> company_id,
      location_id |-> payload.location_id,
      user_id |-> payload.user_id,
      start_at |-> started_at,
      end_at |-> None,
      status |-> "OPEN",
      close_deadline_at |-> started_at + policy.shift_close_deadline_minutes,
      open_data |-> [checklist |-> payload.open_checklist, photo_url |-> payload.open_photo_url],
      close_data |-> None,
      cash_logs |-> IF payload.cash_open_amount # None
                    THEN <<CashLog("open", OrZero(payload.cash_open_amount), started_at)>>
                    ELSE <<>> ]

open_shift(company_id, payload) ==
    LET r == open_shift_check(company_id, payload) IN
    /\ r = Ok => Len(shifts) < MaxShifts
    /\ shifts' = IF r = Ok
                 THEN Append(shifts, new_shift(company_id, payload, _get_policy(company_id), now))
                 ELSE shifts
    /\ resp' = Response("open_shift", r)
    /\ UNCHANGED <<now, companies, users, locations, policies, quizzes, quiz_questions, quiz_attempts, threads, accounts, bot>>

----------------------------------------------------------------------------
\* close_shift.

\* Mutant of _validate_shift_close: require_cash_close is not enforced.
_validate_shift_close_ignores_cash(policy, payload) ==
    IF policy.require_closing_checklist /\ payload.close_checklist = <<>>
    THEN HTTPException(400, "Closing checklist required")
    ELSE IF policy.require_close_photo /\ ~Truthy(payload.close_photo_url)
    THEN HTTPException(400, "Closing photo required")
    ELSE Ok

_validate_shift_close(policy, payload) ==
    IF policy.require_closing_checklist /\ payload.close_checklist = <<>>
    THEN HTTPException(400, "Closing checklist required")
    ELSE IF policy.require_close_photo /\ ~Truthy(payload.close_photo_url)
    THEN HTTPException(400, "Closing photo required")
    ELSE IF policy.require_cash_close /\ payload.cash_close_amount = None
    THEN HTTPException(400, "Closing cash amount required")
    ELSE Ok

\* Mutant of close_shift_lookup: the status check of lines 598-599 is missing.
close_shift_lookup_no_status_check(company_id, shift_id) ==
    IF _ensure_company(company_id) # Ok THEN _ensure_company(company_id)
    ELSE IF shift_id \notin ShiftIds \/ shifts[shift_id].company_id # company_id
    THEN HTTPException(404, "Shift not found")
    ELSE Ok

\* Mutant of close_shift_lookup: the shift is not compared with company_id.
close_shift_lookup_any_company(company_id, shift_id) ==
    IF _ensure_company(company_id) # Ok THEN _ensure_company(company_id)
    ELSE IF shift_id \notin ShiftIds THEN HTTPException(404, "Shift not found")
    ELSE IF shifts[shift_id].status # "OPEN" THEN HTTPException(400, "Shift is not open")
    ELSE Ok

\* Lines 593-599: the lookups of close_shift up to the status check.
close_shift_lookup(company_id, shift_id) ==
    IF _ensure_company(company_id) # Ok THEN _ensure_company(company_id)
    ELSE IF shift_id \notin ShiftIds \/ shifts[shift_id].company_id # company_id
    THEN HTTPException(404, "Shift not found")
    ELSE IF shifts[shift_id].status # "OPEN" THEN HTTPException(400, "Shift is not open")
    ELSE Ok

\* Mutant of deadline_passed: >= for >.
deadline_passed_geq(shift, t) == t >= shift.close_deadline_at

\* Line 600: the deadline test, t the clock read.
deadline_passed(shift, t) == t > shift.close_deadline_at

\* Mutant of expire: end_at is not set.
expire_without_end_at(shift, t) == [shift EXCEPT !.status = "EXPIRED"]

\* Lines 601-603: the shift marked EXPIRED, t the clock read of line 602.
expire(shift, t) == [shift EXCEPT !.status = "EXPIRED", !.end_at = Some(t)]

\* Mutant of close_shift_validate: the gate does not read tests_block_shift_closure.
close_shift_validate_always_gates(company_id, shift, policy, payload, t) ==
    IF ~_monthly_test_passed(company_id, shift.user_id, t)
    THEN HTTPException(400, "Monthly test is overdue")
    ELSE _validate_shift_close(policy, payload)

\* Mutant of close_shift_validate: the payload is validated before the gate.
close_shift_validate_payload_first(company_id, shift, policy, payload, t) ==
    IF _validate_shift_close(policy, payload) # Ok THEN _validate_shift_close(policy, payload)
    ELSE IF policy.tests_block_shift_closure /\ ~_monthly_test_passed(company_id, shift.user_id, t)
    THEN HTTPException(400, "Monthly test is overdue")
    ELSE Ok

\* Lines 605-607: the compliance gate and the payload validation, policy the
\* PolicySettings read at line 594, t the clock read of _monthly_test_passed.
close_shift_validate(company_id, shift, policy, payload, t) ==
    IF policy.tests_block_shift_closure /\ ~_monthly_test_passed(company_id, shift.user_id, t)
    THEN HTTPException(400, "Monthly test is overdue")
    ELSE _validate_shift_close(policy, payload)

\* Mutant of close: the notes of the payload are not stored.
close_drops_notes(shift, payload, t) ==
    [ shift EXCEPT
        !.status = "CLOSED",
        !.end_at = Some(t),
        !.close_data = Some([ checklist |-> payload.close_checklist,
                              photo_url |-> payload.close_photo_url,
                              write_off_reason |-> payload.write_off_reason,
                              notes |-> None ]),
        !.cash_logs = IF payload.cash_close_amount # None
                      THEN Append(@, CashLog("close", payload.cash_close_amount[1], t))
                      ELSE @ ]

\* Mutant of close: the close entry replaces the cash log.
close_resets_cash_logs(shift, payload, t) ==
    [ shift EXCEPT
        !.status = "CLOSED",
        !.end_at = Some(t),
        !.close_data = Some([ checklist |-> payload.close_checklist,
                              photo_url |-> payload.close_photo_url,
                              write_off_reason |-> payload.write_off_reason,
                              notes |-> payload.notes ]),
        !.cash_logs = IF payload.cash_close_amount # None
                      THEN <<CashLog("close", payload.cash_close_amount[1], t)>>
                      ELSE @ ]

\* Lines 608-619: the shift closed, t the clock read.
close(shift, payload, t) ==
    [ shift EXCEPT
        !.status = "CLOSED",
        !.end_at = Some(t),
        !.close_data = Some([ checklist |-> payload.close_checklist,
                              photo_url |-> payload.close_photo_url,
                              write_off_reason |-> payload.write_off_reason,
                              notes |-> payload.notes ]),
        !.cash_logs = IF payload.cash_close_amount # None
                      THEN Append(@, CashLog("close", payload.cash_close_amount[1], t))
                      ELSE @ ]

\* Mutant of close_shift_result: the gate and the validation of lines 605-607
\* run before the deadline test of line 600.
close_shift_result_validate_first(company_id, shift_id, payload, t) ==
    IF close_shift_lookup(company_id, shift_id) # Ok THEN close_shift_lookup(company_id, shift_id)
    ELSE IF close_shift_validate(company_id, shifts[shift_id], _get_policy(company_id), payload, t) # Ok
    THEN close_shift_validate(company_id, shifts[shift_id], _get_policy(company_id), payload, t)
    ELSE IF deadline_passed(shifts[shift_id], t)
    THEN HTTPException(400, "Shift expired and cannot be closed")
    ELSE Ok

\* The response of close_shift called at instant t.
close_shift_result(company_id, shift_id, payload, t) ==
    IF close_shift_lookup(company_id, shift_id) # Ok THEN close_shift_lookup(company_id, shift_id)
    ELSE IF deadline_passed(shifts[shift_id], t)
    THEN HTTPException(400, "Shift expired and cannot be closed")
    ELSE close_shift_validate(company_id, shifts[shift_id], _get_policy(company_id), payload, t)

\* Mutant of close_shift: status and end_at (lines 608-609) are written before
\* the validation of line 607, so a required-field error leaves them written.
close_shift_writes_before_validation(company_id, shift_id, payload) ==
    LET r == close_shift_result(company_id, shift_id, payload, now) IN
    /\ shifts' = IF r = Ok
                 THEN [shifts EXCEPT ![shift_id] = close(@, payload, now)]
                 ELSE IF r.detail = "Shift expired and cannot be closed"
                 THEN [shifts EXCEPT ![shift_id] = expire(@, now)]
                 ELSE IF r.detail \in { "Closing checklist required", "Closing photo required",
                                        "Closing cash amount required" }
                 THEN [shifts EXCEPT ![shift_id].status = "CLOSED", ![shift_id].end_at = Some(now)]
                 ELSE shifts
    /\ resp' = Response("close_shift", r)
    /\ UNCHANGED <<now, companies, users, locations, policies, quizzes, quiz_questions, quiz_attempts, threads, accounts, bot>>

close_shift(company_id, shift_id, payload) ==
    LET r == close_shift_result(company_id, shift_id, payload, now) IN
    /\ shifts' = IF r = Ok
                 THEN [shifts EXCEPT ![shift_id] = close(@, payload, now)]
                 ELSE IF r.detail = "Shift expired and cannot be closed"
                 THEN [shifts EXCEPT ![shift_id] = expire(@, now)]
                 ELSE shifts
    /\ resp' = Response("close_shift", r)
    /\ UNCHANGED <<now, companies, users, locations, policies, quizzes, quiz_questions, quiz_attempts, threads, accounts, bot>>

----------------------------------------------------------------------------
\* set_policy.

\* Mutant of set_policy: the deadlines of the company's OPEN shifts follow the
\* new shift_close_deadline_minutes.
set_policy_recomputes_deadlines(company_id, payload) ==
    LET r == _ensure_company(company_id) IN
    /\ policies' = IF r = Ok THEN (company_id :> payload) @@ policies ELSE policies
    /\ shifts' = IF r = Ok
                 THEN [ i \in ShiftIds |->
                          IF shifts[i].company_id = company_id /\ shifts[i].status = "OPEN"
                          THEN [shifts[i] EXCEPT !.close_deadline_at =
                                    shifts[i].start_at + payload.shift_close_deadline_minutes]
                          ELSE shifts[i] ]
                 ELSE shifts
    /\ resp' = Response("set_policy", r)
    /\ UNCHANGED <<now, companies, users, locations, quizzes, quiz_questions, quiz_attempts, threads, accounts, bot>>

\* Mutant of set_policy: the payload becomes the policy of every company.
set_policy_for_every_company(company_id, payload) ==
    LET r == _ensure_company(company_id) IN
    /\ policies' = IF r = Ok THEN [c \in companies |-> payload] ELSE policies
    /\ resp' = Response("set_policy", r)
    /\ UNCHANGED <<now, companies, users, locations, shifts, quizzes, quiz_questions, quiz_attempts, threads, accounts, bot>>

set_policy(company_id, payload) ==
    LET r == _ensure_company(company_id) IN
    /\ policies' = IF r = Ok THEN (company_id :> payload) @@ policies ELSE policies
    /\ resp' = Response("set_policy", r)
    /\ UNCHANGED <<now, companies, users, locations, shifts, quizzes, quiz_questions, quiz_attempts, threads, accounts, bot>>

----------------------------------------------------------------------------
\* The clock: _utc_now() never goes back.

\* Mutant of Tick: a background sweep expires the overdue shifts as time passes.
tick_with_expiry_sweep ==
    /\ \E t \in Instants :
         /\ t > now
         /\ now' = t
         /\ shifts' = [ i \in DOMAIN shifts |->
                          IF shifts[i].status = "OPEN" /\ deadline_passed(shifts[i], t)
                          THEN expire(shifts[i], t) ELSE shifts[i] ]
    /\ UNCHANGED <<companies, users, locations, policies, quizzes, quiz_questions, quiz_attempts, resp, threads, accounts, bot>>

Tick ==
    /\ \E t \in Instants : t > now /\ now' = t
    /\ UNCHANGED <<store, resp, threads, accounts, bot>>

\* The same clock over a month: the instants that decide the 30-day window of
\* an attempt finished at 0.
DayInstants == {0, ThirtyDays, ThirtyDays + 1}

TickDays ==
    /\ \E t \in DayInstants : t > now /\ now' = t
    /\ UNCHANGED <<store, resp, threads, accounts, bot>>

----------------------------------------------------------------------------
\* get_policy: the response carries the PolicySettings it returns.

get_policy_result(company_id) ==
    LET r == _ensure_company(company_id) IN
    IF r = Ok THEN [status |-> 200, detail |-> "ok", body |-> _get_policy(company_id)]
    ELSE [status |-> r.status, detail |-> r.detail, body |-> None]

get_policy(company_id) ==
    LET r == get_policy_result(company_id) IN
    /\ resp' = [op |-> "get_policy", status |-> r.status, detail |-> r.detail, body |-> r.body]
    /\ UNCHANGED <<now, store, threads, accounts, bot>>

----------------------------------------------------------------------------
\* The quiz handlers.

MaxQuizzes == 2
MaxQuestions == 2
MaxAttempts == 2

QuizNotFound == HTTPException(404, "Quiz not found")

\* quiz = store.quizzes.get(quiz_id); if not quiz or quiz.company_id != company_id
quiz_lookup(company_id, quiz_id) ==
    IF _ensure_company(company_id) # Ok THEN _ensure_company(company_id)
    ELSE IF quiz_id \notin DOMAIN quizzes THEN QuizNotFound
    ELSE IF quizzes[quiz_id].company_id # company_id THEN QuizNotFound
    ELSE Ok

create_quiz(company_id, payload) ==
    LET r == _ensure_company(company_id) IN
    /\ r = Ok => Len(quizzes) < MaxQuizzes
    /\ quizzes' = IF r = Ok THEN Append(quizzes, Quiz(company_id, payload)) ELSE quizzes
    /\ resp' = Response("create_quiz", r)
    /\ UNCHANGED <<now, companies, users, locations, policies, shifts, quiz_questions, quiz_attempts, threads, accounts, bot>>

\* The fields of QuizQuestion the scoring reads; text, answers and explanation
\* are stored and never read by a handler's logic.
QuizQuestion(quiz_id, payload) ==
    [ id |-> Len(quiz_questions) + 1, quiz_id |-> quiz_id,
      correct_answers |-> payload.correct_answers ]

add_quiz_question(company_id, quiz_id, payload) ==
    LET r == quiz_lookup(company_id, quiz_id) IN
    /\ r = Ok => Len(quiz_questions) < MaxQuestions
    /\ quiz_questions' = IF r = Ok THEN Append(quiz_questions, QuizQuestion(quiz_id, payload))
                         ELSE quiz_questions
    /\ resp' = Response("add_quiz_question", r)
    /\ UNCHANGED <<now, companies, users, locations, policies, shifts, quizzes, quiz_attempts, threads, accounts, bot>>

\* Mutant of create_quiz_attempt: a user's new attempt on a quiz takes the
\* place of that user's earlier attempt on it.
create_quiz_attempt_upserts(company_id, quiz_id, payload) ==
    LET r == quiz_lookup(company_id, quiz_id)
        earlier == { i \in 1..Len(quiz_attempts) :
                       quiz_attempts[i].quiz_id = quiz_id /\ quiz_attempts[i].user_id = payload.user_id }
    IN
    /\ r = Ok => Len(quiz_attempts) < MaxAttempts
    /\ quiz_attempts' =
         IF r # Ok THEN quiz_attempts
         ELSE IF earlier = {} THEN Append(quiz_attempts, QuizAttempt(quiz_id, payload, now))
         ELSE [ quiz_attempts EXCEPT ![CHOOSE i \in earlier : TRUE] =
                  [ QuizAttempt(quiz_id, payload, now) EXCEPT !.id = CHOOSE i \in earlier : TRUE ] ]
    /\ resp' = Response("create_quiz_attempt", r)
    /\ UNCHANGED <<now, companies, users, locations, policies, shifts, quizzes, quiz_questions, threads, accounts, bot>>

create_quiz_attempt(company_id, quiz_id, payload) ==
    LET r == quiz_lookup(company_id, quiz_id) IN
    /\ r = Ok => Len(quiz_attempts) < MaxAttempts
    /\ quiz_attempts' = IF r = Ok THEN Append(quiz_attempts, QuizAttempt(quiz_id, payload, now))
                        ELSE quiz_attempts
    /\ resp' = Response("create_quiz_attempt", r)
    /\ UNCHANGED <<now, companies, users, locations, policies, shifts, quizzes, quiz_questions, threads, accounts, bot>>

----------------------------------------------------------------------------
\* onboard_owner.

\* Companies the store may hold.
MaxCompanies == 2

UsernameTaken == HTTPException(400, "Username already taken")

\* _find_credential(username): the credentials with that username.
_find_credential(username) ==
    { i \in 1..Len(credentials) : credentials[i].username = username }

onboard_owner_result(payload) ==
    IF _find_credential(payload.username) # {} THEN UsernameTaken ELSE Ok

\* Mutant of onboard_owner_writes: the company is stored before the username
\* is looked up.
onboard_owner_writes_company_first(payload) ==
    LET company_id == Cardinality(companies) + 1
        owner_id == Cardinality(DOMAIN users) + 1
        taken == onboard_owner_result(payload) # Ok
    IN
    /\ companies' = companies \cup {company_id}
    /\ locations' = IF ~taken /\ Truthy(payload.location_name)
                     THEN locations @@ ((Cardinality(DOMAIN locations) + 1) :> company_id)
                     ELSE locations
    /\ users' = IF taken THEN users ELSE users @@ (owner_id :> company_id)
    /\ user_roles' = IF taken THEN user_roles ELSE user_roles @@ (owner_id :> "owner")
    /\ credentials' = IF taken THEN credentials
                       ELSE Append(credentials, [ id |-> Len(credentials) + 1, company_id |-> company_id,
                                                  user_id |-> owner_id, username |-> payload.username ])
    /\ invites' = IF taken THEN invites
                   ELSE Append(invites, [ code |-> Len(invites) + 1, company_id |-> company_id,
                                          role_default |-> "staff" ])

\* Lines 356-400: what onboard_owner writes to the store.  The company name,
\* timezone, owner name, telegram_id and password hash are stored and read by
\* no check of the handlers modelled here.
onboard_owner_writes(payload) ==
    LET company_id == Cardinality(companies) + 1
        owner_id == Cardinality(DOMAIN users) + 1
    IN
    IF onboard_owner_result(payload) # Ok
    THEN UNCHANGED <<companies, locations, users, user_roles, credentials, invites>>
    ELSE /\ companies' = companies \cup {company_id}
         /\ locations' = IF Truthy(payload.location_name)
                          THEN locations @@ ((Cardinality(DOMAIN locations) + 1) :> company_id)
                          ELSE locations
         /\ users' = users @@ (owner_id :> company_id)
         /\ user_roles' = user_roles @@ (owner_id :> "owner")
         /\ credentials' = Append(credentials, [ id |-> Len(credentials) + 1, company_id |-> company_id,
                                                  user_id |-> owner_id, username |-> payload.username ])
         /\ invites' = Append(invites, [ code |-> Len(invites) + 1, company_id |-> company_id,
                                          role_default |-> "staff" ])

onboard_owner(payload) ==
    /\ onboard_owner_result(payload) = Ok => Cardinality(companies) < MaxCompanies
    /\ onboard_owner_writes(payload)
    /\ resp' = Response("onboard_owner", onboard_owner_result(payload))
    /\ UNCHANGED <<now, policies, shifts, quizzes, quiz_questions, quiz_attempts, threads, bot>>

----------------------------------------------------------------------------
\* telegram_bot.py.  The Russian words of the buttons are written in Latin
\* letters; a message is named by what it asks or tells.

\* Update ids Telegram delivers.
MaxUpdateId == 7

\* What a handler returns and does: the session, the messages sent to the
\* chat and the requests posted to the backend.
Outcome(session, messages, requests) ==
    [session |-> session, messages |-> messages, requests |-> requests]

\* str.lower on the texts of the model: "/Start" is the one with a capital.
lower(text) == IF text = "/Start" THEN "/start" ELSE text

\* str.strip on the texts of the model: " /Start " is the one with space
\* around it.
strip(text) == IF text = " /Start " THEN "/Start" ELSE text

\* The texts with "vlad" in them, and those with "sotr".
_parse_role_choice(message) ==
    IF lower(message) \in {"vladelets"} THEN Some("owner")
    ELSE IF lower(message) \in {"sotrudnik"} THEN Some("staff")
    ELSE None

_reset_session == Session

\* Mutant of Put: a key the data holds keeps its value and no key is added.
Put_known_keys_only(data, key, value) == data

\* session.data[key] = value.
Put(data, key, value) == (key :> value) @@ data

_send_role_prompt(session) ==
    Outcome([session EXCEPT !.step = Some("choose_role"), !.role = None], <<"role_prompt">>, <<>>)

_send_staff_menu(session) ==
    Outcome([session EXCEPT !.step = Some("staff_menu")], <<"staff_menu">>, <<>>)

_send_staff_profile(session) ==
    Outcome([session EXCEPT !.step = Some("staff_profile")], <<"staff_profile">>, <<>>)

_send_staff_recipes(session) ==
    Outcome([session EXCEPT !.step = Some("staff_recipes")], <<"staff_recipes">>, <<>>)

\* The question of each step of the two forms.
Question ==
    [ owner_company |-> "ask_company", owner_name |-> "ask_name", owner_username |-> "ask_username",
      owner_password |-> "ask_password", owner_timezone |-> "ask_timezone",
      owner_location |-> "ask_location", staff_invite |-> "ask_invite", staff_name |-> "ask_name" ]

_repeat_current_question(session) ==
    IF session.step \in {None, Some("choose_role")} THEN _send_role_prompt(session)
    ELSE IF session.step[1] \in DOMAIN Question
    THEN Outcome(session, <<Question[session.step[1]]>>, <<>>)
    ELSE IF session.step = Some("staff_menu") THEN _send_staff_menu(session)
    ELSE IF session.step = Some("staff_profile") THEN _send_staff_profile(session)
    ELSE IF session.step = Some("staff_recipes") THEN _send_staff_recipes(session)
    ELSE Outcome(session, <<"write_start">>, <<>>)

handle_start(session) == _send_role_prompt(_reset_session)

\* The steps of the owner form in the order of _handle_owner_flow, and the
\* steps whose names start with "staff_".
OwnerSteps ==
    <<"owner_company", "owner_name", "owner_username", "owner_password", "owner_timezone",
      "owner_location">>

StaffSteps == {"staff_invite", "staff_name", "staff_menu", "staff_profile", "staff_recipes"}

\* OwnerOnboardingRequest.location_name when the payload has none.
DefaultLocationName == "osnovnaya tochka"

\* Lines 391-403: the payload posted at step owner_location.  Of its fields
\* onboard_owner reads username and location_name for what it checks and
\* which records it stores.
owner_payload(session, message) ==
    [ username |-> session.data["username"],
      company_name |-> session.data["company_name"],
      location_name |-> IF message \in {"-", ""} THEN Some(DefaultLocationName) ELSE Some(message) ]

owner_request(session, message) ==
    [url |-> "/api/onboarding/owner", payload |-> owner_payload(session, message)]

\* Mutant of _handle_owner_flow: a rejected onboarding keeps the form at its
\* last step.
_handle_owner_flow_keeps_rejected(session, message) ==
    IF session.step = Some("owner_company")
    THEN Outcome([session EXCEPT !.data = Put(@, "company_name", message),
                                 !.step = Some("owner_name")], <<"ask_name">>, <<>>)
    ELSE IF session.step = Some("owner_name")
    THEN Outcome([session EXCEPT !.data = Put(@, "owner_name", message),
                                 !.step = Some("owner_username")], <<"ask_username">>, <<>>)
    ELSE IF session.step = Some("owner_username")
    THEN Outcome([session EXCEPT !.data = Put(@, "username", message),
                                 !.step = Some("owner_password")], <<"ask_password">>, <<>>)
    ELSE IF session.step = Some("owner_password")
    THEN Outcome([session EXCEPT !.data = Put(@, "password", message),
                                 !.step = Some("owner_timezone")], <<"ask_timezone">>, <<>>)
    ELSE IF session.step = Some("owner_timezone")
    THEN Outcome([session EXCEPT !.data = Put(@, "timezone", IF message = "-" THEN None ELSE Some(message)),
                                 !.step = Some("owner_location")], <<"ask_location">>, <<>>)
    ELSE IF session.step = Some("owner_location")
    THEN IF onboard_owner_result(owner_payload(session, message)) = Ok
         THEN Outcome(_reset_session, <<"company_created">>, <<owner_request(session, message)>>)
         ELSE Outcome(session, <<"onboarding_error">>, <<owner_request(session, message)>>)
    ELSE _repeat_current_question(session)

\* Lines 352-422.  response.ok is the answer of onboard_owner to the payload.
_handle_owner_flow(session, message) ==
    IF session.step = Some("owner_company")
    THEN Outcome([session EXCEPT !.data = Put(@, "company_name", message),
                                 !.step = Some("owner_name")], <<"ask_name">>, <<>>)
    ELSE IF session.step = Some("owner_name")
    THEN Outcome([session EXCEPT !.data = Put(@, "owner_name", message),
                                 !.step = Some("owner_username")], <<"ask_username">>, <<>>)
    ELSE IF session.step = Some("owner_username")
    THEN Outcome([session EXCEPT !.data = Put(@, "username", message),
                                 !.step = Some("owner_password")], <<"ask_password">>, <<>>)
    ELSE IF session.step = Some("owner_password")
    THEN Outcome([session EXCEPT !.data = Put(@, "password", message),
                                 !.step = Some("owner_timezone")], <<"ask_timezone">>, <<>>)
    ELSE IF session.step = Some("owner_timezone")
    THEN Outcome([session EXCEPT !.data = Put(@, "timezone", IF message = "-" THEN None ELSE Some(message)),
                                 !.step = Some("owner_location")], <<"ask_location">>, <<>>)
    ELSE IF session.step = Some("owner_location")
    THEN IF onboard_owner_result(owner_payload(session, message)) = Ok
         THEN Outcome(_reset_session, <<"company_created">>, <<owner_request(session, message)>>)
         ELSE Outcome(_reset_session, <<"onboarding_error">>, <<owner_request(session, message)>>)
    ELSE _repeat_current_question(session)

\* The answers of the backend to POST /api/onboarding/invite, which no
\* handler of mvp.py serves: response.ok and the company_name of the body.
InviteReplies ==
    { [ok |-> FALSE, company_name |-> None], [ok |-> TRUE, company_name |-> Some("acme")] }

invite_request(session, message) ==
    [url |-> "/api/onboarding/invite",
     payload |-> [code |-> session.data["invite_code"], name |-> message]]

\* Lines 424-476, reply the answer of the backend if the flow posts.
_handle_staff_flow(session, message, reply) ==
    IF session.step = Some("staff_menu")
    THEN IF message = "profil" THEN _send_staff_profile(session)
         ELSE IF message = "retsepty" THEN _send_staff_recipes(session)
         ELSE _send_staff_menu(session)
    ELSE IF session.step = Some("staff_profile")
    THEN IF message = "v menyu" THEN _send_staff_menu(session) ELSE _send_staff_profile(session)
    ELSE IF session.step = Some("staff_recipes")
    THEN IF message = "nazad" THEN _send_staff_menu(session) ELSE _send_staff_recipes(session)
    ELSE IF session.step = Some("staff_invite")
    THEN Outcome([session EXCEPT !.data = Put(@, "invite_code", message),
                                 !.step = Some("staff_name")], <<"ask_name">>, <<>>)
    ELSE IF session.step = Some("staff_name")
    THEN IF reply.ok
         THEN Outcome([session EXCEPT
                          !.data = IF Truthy(reply.company_name)
                                   THEN Put(Put(@, "staff_name", message), "company_name",
                                            reply.company_name[1])
                                   ELSE Put(@, "staff_name", message),
                          !.step = Some("staff_menu")],
                      <<"added", "staff_menu">>, <<invite_request(session, message)>>)
         ELSE Outcome(_reset_session, <<"invite_error">>, <<invite_request(session, message)>>)
    ELSE _repeat_current_question(session)

\* Lines 310-313: the role a session without one takes from its step.
infer_role(session) ==
    IF session.step # None /\ ~Truthy(session.role)
    THEN IF \E i \in DOMAIN OwnerSteps : OwnerSteps[i] = session.step[1]
         THEN [session EXCEPT !.role = Some("owner")]
         ELSE IF session.step[1] \in StaffSteps THEN [session EXCEPT !.role = Some("staff")]
         ELSE session
    ELSE session

\* Mutant of handle_message: /start asks for the role again and keeps the
\* data of the session.
handle_message_start_keeps_data(text, session, reply) ==
    LET message == strip(text)
        role_choice == _parse_role_choice(message)
    IN
    IF lower(message) = "/start" THEN _send_role_prompt(session)
    ELSE IF session.step = Some("choose_role") \/ (~Truthy(session.role) /\ role_choice # None)
    THEN IF role_choice = Some("owner")
         THEN Outcome([session EXCEPT !.role = Some("owner"), !.step = Some("owner_company")],
                      <<"ask_company">>, <<>>)
         ELSE IF role_choice = Some("staff")
         THEN Outcome([session EXCEPT !.role = Some("staff"), !.step = Some("staff_invite")],
                      <<"ask_invite">>, <<>>)
         ELSE Outcome(_send_role_prompt(session).session, <<"choose_role_please", "role_prompt">>, <<>>)
    ELSE IF infer_role(session).role = Some("owner")
    THEN _handle_owner_flow(infer_role(session), message)
    ELSE IF infer_role(session).role = Some("staff")
    THEN _handle_staff_flow(infer_role(session), message, reply)
    ELSE _repeat_current_question(infer_role(session))

\* Lines 290-321.
handle_message(text, session, reply) ==
    LET message == strip(text)
        role_choice == _parse_role_choice(message)
    IN
    IF lower(message) = "/start" THEN handle_start(session)
    ELSE IF session.step = Some("choose_role") \/ (~Truthy(session.role) /\ role_choice # None)
    THEN IF role_choice = Some("owner")
         THEN Outcome([session EXCEPT !.role = Some("owner"), !.step = Some("owner_company")],
                      <<"ask_company">>, <<>>)
         ELSE IF role_choice = Some("staff")
         THEN Outcome([session EXCEPT !.role = Some("staff"), !.step = Some("staff_invite")],
                      <<"ask_invite">>, <<>>)
         ELSE Outcome(_send_role_prompt(session).session, <<"choose_role_please", "role_prompt">>, <<>>)
    ELSE IF infer_role(session).role = Some("owner")
    THEN _handle_owner_flow(infer_role(session), message)
    ELSE IF infer_role(session).role = Some("staff")
    THEN _handle_staff_flow(infer_role(session), message, reply)
    ELSE _repeat_current_question(infer_role(session))

\* Mutant of handle_callback: a role button moves the step and leaves the role.
handle_callback_keeps_role(data, session) ==
    IF data = "role_owner"
    THEN Outcome([session EXCEPT !.step = Some("owner_company")], <<"ask_company">>, <<>>)
    ELSE IF data = "role_staff"
    THEN Outcome([session EXCEPT !.step = Some("staff_invite")], <<"ask_invite">>, <<>>)
    ELSE _repeat_current_question(session)

\* Lines 330-343.
handle_callback(data, session) ==
    IF data = "role_owner"
    THEN Outcome([session EXCEPT !.role = Some("owner"), !.step = Some("owner_company")],
                 <<"ask_company">>, <<>>)
    ELSE IF data = "role_staff"
    THEN Outcome([session EXCEPT !.role = Some("staff"), !.step = Some("staff_invite")],
                 <<"ask_invite">>, <<>>)
    ELSE _repeat_current_question(session)

\* Mutant of ignored: an update is ignored only below the stored id.
ignored_below(session, update_id) ==
    session.last_update_id # None /\ update_id < session.last_update_id[1]

\* Lines 502 and 538 of run.
ignored(session, update_id) ==
    session.last_update_id # None /\ update_id <= session.last_update_id[1]

\* Mutant of processed: the session is saved as the handler returned it.
processed_as_returned(session, update_id) == session

\* Lines 521-522 and 557-558 of run: the session that is saved.
processed(session, update_id) == [session EXCEPT !.last_update_id = Some(update_id)]

\* One update of run, o what its handler returns and does: the update is
\* ignored, or handled with the session saved; an onboarding request posted by
\* the handler is served by onboard_owner.
run(update_id, user_id, o) ==
    /\ IF ignored(sessions[user_id], update_id)
       THEN /\ sent' = NothingSent
            /\ UNCHANGED <<sessions, companies, users, locations, accounts, resp>>
       ELSE /\ sessions' = [sessions EXCEPT ![user_id] = processed(o.session, update_id)]
            /\ sent' = [messages |-> o.messages, requests |-> o.requests]
            /\ IF o.requests # <<>> /\ o.requests[1].url = "/api/onboarding/owner"
               THEN /\ onboard_owner_result(o.requests[1].payload) = Ok
                       => Cardinality(companies) < MaxCompanies
                    /\ onboard_owner_writes(o.requests[1].payload)
                    /\ resp' = Response("onboard_owner", onboard_owner_result(o.requests[1].payload))
               ELSE UNCHANGED <<companies, users, locations, accounts, resp>>
    /\ UNCHANGED <<now, policies, shifts, quizzes, quiz_questions, quiz_attempts, threads>>

\* Lines 532-558 of run: an update with a text message, the session the
\* stored one or Session().
message_update(update_id, user_id, text, reply) ==
    /\ user_id \in DOMAIN sessions
    /\ run(update_id, user_id, handle_message(text, sessions[user_id], reply))

\* Lines 492-522 of run: an update with a callback query.
callback_update(update_id, user_id, data) ==
    /\ user_id \in DOMAIN sessions
    /\ run(update_id, user_id, handle_callback(data, sessions[user_id]))

----------------------------------------------------------------------------
\* The handlers as the request threads of the thread pool run them.  mvp.py
\* takes no lock: a thread may be preempted between any two statements.  A
\* step below runs the statements between two points where the model lets the
\* other thread or the clock in.

ThreadIds == {1, 2}

\* Threads between the active_shift search and the insertion of their shift.
inserting == { t \in ThreadIds : pc[t] = "open_insert" }

\* Lines 537-555 of open_shift; policy is the local read at line 538.
open_shift_begin(t, company_id, payload) ==
    LET r == open_shift_check(company_id, payload) IN
    /\ pc[t] = "idle"
    /\ r = Ok => Len(shifts) + Cardinality(inserting) < MaxShifts
    /\ IF r = Ok
       THEN /\ pc' = [pc EXCEPT ![t] = "open_insert"]
            /\ req' = [req EXCEPT ![t] = Some([ company_id |-> company_id, payload |-> payload,
                                                policy |-> _get_policy(company_id) ])]
            /\ UNCHANGED tresp
       ELSE /\ tresp' = [tresp EXCEPT ![t] = Response("open_shift", r)]
            /\ UNCHANGED <<pc, req>>
    /\ UNCHANGED <<now, store, resp, accounts, bot>>

\* Lines 556-579 of open_shift.
open_shift_insert(t) ==
    /\ pc[t] = "open_insert"
    /\ shifts' = Append(shifts, new_shift(req[t][1].company_id, req[t][1].payload, req[t][1].policy, now))
    /\ pc' = [pc EXCEPT ![t] = "idle"]
    /\ req' = [req EXCEPT ![t] = None]
    /\ tresp' = [tresp EXCEPT ![t] = Response("open_shift", Ok)]
    /\ UNCHANGED <<now, companies, users, locations, policies, quizzes, quiz_questions, quiz_attempts, resp, accounts, bot>>

\* Lines 593-599 of close_shift; policy is the local read at line 594, shift
\* the reference to the stored Shift object.
close_shift_begin(t, company_id, shift_id, payload) ==
    LET r == close_shift_lookup(company_id, shift_id) IN
    /\ pc[t] = "idle"
    /\ IF r = Ok
       THEN /\ pc' = [pc EXCEPT ![t] = "close_deadline"]
            /\ req' = [req EXCEPT ![t] = Some([ company_id |-> company_id, shift_id |-> shift_id,
                                                payload |-> payload,
                                                policy |-> _get_policy(company_id) ])]
            /\ UNCHANGED tresp
       ELSE /\ tresp' = [tresp EXCEPT ![t] = Response("close_shift", r)]
            /\ UNCHANGED <<pc, req>>
    /\ UNCHANGED <<now, store, resp, accounts, bot>>

\* Lines 600-604 of close_shift.
close_shift_deadline(t) ==
    LET sid == req[t][1].shift_id IN
    /\ pc[t] = "close_deadline"
    /\ IF deadline_passed(shifts[sid], now)
       THEN /\ shifts' = [shifts EXCEPT ![sid] = expire(@, now)]
            /\ pc' = [pc EXCEPT ![t] = "idle"]
            /\ req' = [req EXCEPT ![t] = None]
            /\ tresp' = [tresp EXCEPT ![t] =
                   Response("close_shift", HTTPException(400, "Shift expired and cannot be closed"))]
       ELSE /\ pc' = [pc EXCEPT ![t] = "close_validate"]
            /\ UNCHANGED <<shifts, req, tresp>>
    /\ UNCHANGED <<now, companies, users, locations, policies, quizzes, quiz_questions, quiz_attempts, resp, accounts, bot>>

\* Lines 605-607 of close_shift.
close_shift_gate(t) ==
    LET q == req[t][1]
        r == close_shift_validate(q.company_id, shifts[q.shift_id], q.policy, q.payload, now)
    IN
    /\ pc[t] = "close_validate"
    /\ IF r = Ok
       THEN /\ pc' = [pc EXCEPT ![t] = "close_write"]
            /\ UNCHANGED <<req, tresp>>
       ELSE /\ pc' = [pc EXCEPT ![t] = "idle"]
            /\ req' = [req EXCEPT ![t] = None]
            /\ tresp' = [tresp EXCEPT ![t] = Response("close_shift", r)]
    /\ UNCHANGED <<now, store, resp, accounts, bot>>

\* Lines 608-621 of close_shift: the writes go to the stored Shift object as
\* it is now, whatever another thread has done to it since the status check.
close_shift_write(t) ==
    LET q == req[t][1] IN
    /\ pc[t] = "close_write"
    /\ shifts' = [shifts EXCEPT ![q.shift_id] = close(@, q.payload, now)]
    /\ pc' = [pc EXCEPT ![t] = "idle"]
    /\ req' = [req EXCEPT ![t] = None]
    /\ tresp' = [tresp EXCEPT ![t] = Response("close_shift", Ok)]
    /\ UNCHANGED <<now, companies, users, locations, policies, quizzes, quiz_questions, quiz_attempts, resp, accounts, bot>>

\* The requests the threads serve in SpecConc.
ConcOpenRequest ==
    { [location_id |-> 1, user_id |-> 1, open_checklist |-> <<"lights">>,
       open_photo_url |-> None, cash_open_amount |-> Some(100)] }

ConcCloseRequest ==
    { [close_checklist |-> <<"lock">>, close_photo_url |-> None, cash_close_amount |-> Some(a),
       write_off_reason |-> None, notes |-> None] : a \in {0, 150} }



\* The store after the set-up calls create_company, create_user (twice),
\* create_location, create_quiz (a monthly quiz with passing_score 0 and no
\* question) and create_quiz_attempt by user 1 (score 0, so passed): user 1 has
\* passed the monthly test, user 2 has not.
Init ==
    /\ now = 0
    /\ companies = {1}
    /\ users = (1 :> 1) @@ (2 :> 1)
    /\ locations = (1 :> 1)
    /\ policies = <<>>
    /\ shifts = <<>>
    /\ quizzes = <<[id |-> 1, company_id |-> 1, type |-> "monthly", passing_score |-> 0]>>
    /\ quiz_questions = <<>>
    /\ quiz_attempts = <<[id |-> 1, quiz_id |-> 1, user_id |-> 1, started_at |-> 0,
                          finished_at |-> 0, score |-> 0, passed |-> TRUE]>>
    /\ resp = NoResponse
    /\ pc = [t \in ThreadIds |-> "idle"]
    /\ req = [t \in ThreadIds |-> None]
    /\ tresp = [t \in ThreadIds |-> NoResponse]
    /\ user_roles = [u \in DOMAIN users |-> "staff"]
    /\ credentials = <<>>
    /\ invites = <<>>
    /\ sessions = [u \in TelegramUsers |-> Session]
    /\ sent = NothingSent

Next ==
    \/ Tick
    \/ \E c \in CompanyInputs, p \in PolicyInputs : set_policy(c, p)
    \/ \E c \in CompanyInputs, p \in ShiftOpenRequest : open_shift(c, p)
    \/ \E c \in CompanyInputs, s \in ShiftInputs, p \in ShiftCloseRequest : close_shift(c, s, p)

Spec == Init /\ [][Next]_vars

NextConc ==
    \/ Tick
    \/ \E t \in ThreadIds, p \in ConcOpenRequest : open_shift_begin(t, 1, p)
    \/ \E t \in ThreadIds : open_shift_insert(t)
    \/ \E t \in ThreadIds, s \in ShiftInputs, p \in ConcCloseRequest : close_shift_begin(t, 1, s, p)
    \/ \E t \in ThreadIds : close_shift_deadline(t)
    \/ \E t \in ThreadIds : close_shift_gate(t)
    \/ \E t \in ThreadIds : close_shift_write(t)

SpecConc == Init /\ [][NextConc]_vars

----------------------------------------------------------------------------
\* A company that has no quiz yet.

\* The store after create_company (twice), create_user (twice, in company 1)
\* and create_location: no quiz, no attempt, no stored policy.
InitFresh ==
    /\ now = 0
    /\ companies = {1, 2}
    /\ users = (1 :> 1) @@ (2 :> 1)
    /\ locations = (1 :> 1)
    /\ policies = <<>>
    /\ shifts = <<>>
    /\ quizzes = <<>>
    /\ quiz_questions = <<>>
    /\ quiz_attempts = <<>>
    /\ resp = NoResponse
    /\ pc = [t \in ThreadIds |-> "idle"]
    /\ req = [t \in ThreadIds |-> None]
    /\ tresp = [t \in ThreadIds |-> NoResponse]
    /\ user_roles = [u \in DOMAIN users |-> "staff"]
    /\ credentials = <<>>
    /\ invites = <<>>
    /\ sessions = [u \in TelegramUsers |-> Session]
    /\ sent = NothingSent

\* create_quiz calls as <<company_id, payload>>: a quiz of company 1 that is
\* not monthly, a monthly quiz of company 2, a monthly quiz of company 1.
QuizCreateCalls ==
    { <<1, [type |-> "random", passing_score |-> 0]>>,
      <<2, [type |-> "monthly", passing_score |-> 0]>>,
      <<1, [type |-> "monthly", passing_score |-> 0]>> }

\* The clock stands at 0: every close_shift is attempted before the deadline.
NextFailClosed ==
    \/ \E p \in {PolicySettings, LenientPolicy} : set_policy(1, p)
    \/ \E call \in QuizCreateCalls : create_quiz(call[1], call[2])
    \/ \E p \in ConcOpenRequest : open_shift(1, p)
    \/ \E s \in ShiftInputs, p \in ShiftCloseRequest : close_shift(1, s, p)

SpecFailClosed == InitFresh /\ [][NextFailClosed]_vars

----------------------------------------------------------------------------
\* Quiz attempts over a month.

\* The policy of a company that does not require the monthly test.
NoTestPolicy == [ PolicySettings EXCEPT !.monthly_test_required = FALSE ]

\* InitFresh after four create_quiz calls: in company 1 a monthly quiz every
\* attempt passes (1), a monthly quiz no attempt passes while it has no
\* question (2) and a quiz that is not monthly (4); a monthly quiz of
\* company 2 (3).
InitQuizzes ==
    /\ now = 0
    /\ companies = {1, 2}
    /\ users = (1 :> 1) @@ (2 :> 1)
    /\ locations = (1 :> 1)
    /\ policies = <<>>
    /\ shifts = <<>>
    /\ quizzes = << [id |-> 1, company_id |-> 1, type |-> "monthly", passing_score |-> 0],
                    [id |-> 2, company_id |-> 1, type |-> "monthly", passing_score |-> 70],
                    [id |-> 3, company_id |-> 2, type |-> "monthly", passing_score |-> 0],
                    [id |-> 4, company_id |-> 1, type |-> "random", passing_score |-> 0] >>
    /\ quiz_questions = <<>>
    /\ quiz_attempts = <<>>
    /\ resp = NoResponse
    /\ pc = [t \in ThreadIds |-> "idle"]
    /\ req = [t \in ThreadIds |-> None]
    /\ tresp = [t \in ThreadIds |-> NoResponse]
    /\ user_roles = [u \in DOMAIN users |-> "staff"]
    /\ credentials = <<>>
    /\ invites = <<>>
    /\ sessions = [u \in TelegramUsers |-> Session]
    /\ sent = NothingSent

\* Quiz ids a caller may send: the known ones and 0, the id of no quiz.
QuizInputs == 0..Len(quizzes)

QuizAttemptCreate == { [user_id |-> u, answers |-> <<>>] : u \in DOMAIN users }

NextCompliance ==
    \/ TickDays
    \/ \E p \in {PolicySettings, NoTestPolicy} : set_policy(1, p)
    \/ \E c \in companies, q \in QuizInputs, p \in QuizAttemptCreate : create_quiz_attempt(c, q, p)

SpecCompliance == InitQuizzes /\ [][NextCompliance]_vars

----------------------------------------------------------------------------
\* open_shift under every combination of the opening requirements.

\* The policies a tenant admin submits: each combination of the three opening
\* requirements, with a deadline of 0 or 90 minutes.
OpenPolicies ==
    { [ PolicySettings EXCEPT
          !.shift_close_deadline_minutes = d,
          !.require_opening_checklist = k,
          !.require_open_photo = ph,
          !.require_cash_open = ca ] :
      d \in {0, DefaultDeadlineMinutes}, k \in BOOLEAN, ph \in BOOLEAN, ca \in BOOLEAN }

\* The payloads a caller sends: user 1 or the unknown user 0, location 1 or the
\* unknown location 0, each field present or missing (an amount of 0 is
\* present), and one payload whose photo url is the empty string.
OpenRequests ==
    { [location_id |-> l, user_id |-> u, open_checklist |-> k,
       open_photo_url |-> ph, cash_open_amount |-> ca] :
      l \in {0, 1}, u \in {0, 1}, k \in {<<>>, <<"lights">>},
      ph \in {None, Some("open.jpg")}, ca \in {None, Some(0)} }
    \cup
    { [location_id |-> 1, user_id |-> 1, open_checklist |-> <<"lights">>,
       open_photo_url |-> Some(""), cash_open_amount |-> Some(100)] }

NextOpen ==
    \/ Tick
    \/ \E p \in OpenPolicies : set_policy(1, p)
    \/ \E c \in CompanyInputs, p \in OpenRequests : open_shift(c, p)

SpecOpen == Init /\ [][NextOpen]_vars

\* The same calls with the clock at rest and the default deadline: the order of
\* the checks depends on neither.
NextOpenOrder ==
    \/ \E p \in { q \in OpenPolicies : q.shift_close_deadline_minutes = DefaultDeadlineMinutes } :
         set_policy(1, p)
    \/ \E c \in CompanyInputs, p \in OpenRequests : open_shift(c, p)

SpecOpenOrder == Init /\ [][NextOpenOrder]_vars

----------------------------------------------------------------------------
\* close_shift under every combination of the closing requirements.

\* Each combination of the three closing requirements and of the compliance
\* gate; monthly_test_required and the deadline keep their defaults.
ClosePolicies ==
    { [ PolicySettings EXCEPT
          !.require_closing_checklist = k,
          !.require_close_photo = ph,
          !.require_cash_close = ca,
          !.tests_block_shift_closure = tb ] :
      k \in BOOLEAN, ph \in BOOLEAN, ca \in BOOLEAN, tb \in BOOLEAN }

\* The payloads a caller sends: each required field present or missing (an
\* amount of 0 is present), one payload whose photo url is the empty string,
\* and one with every field filled.
CloseRequests ==
    { [close_checklist |-> k, close_photo_url |-> ph, cash_close_amount |-> ca,
       write_off_reason |-> None, notes |-> None] :
      k \in {<<>>, <<"lock">>}, ph \in {None, Some("close.jpg")}, ca \in {None, Some(0)} }
    \cup
    { [close_checklist |-> <<"lock">>, close_photo_url |-> Some(""), cash_close_amount |-> Some(150),
       write_off_reason |-> None, notes |-> None],
      [close_checklist |-> <<"lock">>, close_photo_url |-> Some("close.jpg"), cash_close_amount |-> Some(150),
       write_off_reason |-> Some("spoiled"), notes |-> Some("late delivery")] }

\* A shift opened at instant 0 under the default policy with the checklist
\* <<"lights">> and no photo.
OpenedAtStart(id, user_id, cash_logs) ==
    [ id |-> id, company_id |-> 1, location_id |-> 1, user_id |-> user_id,
      start_at |-> 0, end_at |-> None, status |-> "OPEN",
      close_deadline_at |-> DefaultDeadlineMinutes,
      open_data |-> [checklist |-> <<"lights">>, photo_url |-> None],
      close_data |-> None, cash_logs |-> cash_logs ]

\* The store once company 1 has its monthly quiz, user 1 has passed it, the
\* shifts of initial_shifts have been opened under the default policy and the
\* admin has then stored one of ClosePolicies; company 2 has nothing.
InitWithShifts(initial_shifts) ==
    /\ now = 0
    /\ companies = {1, 2}
    /\ users = (1 :> 1) @@ (2 :> 1)
    /\ locations = (1 :> 1)
    /\ policies \in { (1 :> p) : p \in ClosePolicies }
    /\ shifts \in initial_shifts
    /\ quizzes = <<[id |-> 1, company_id |-> 1, type |-> "monthly", passing_score |-> 0]>>
    /\ quiz_questions = <<>>
    /\ quiz_attempts = <<[id |-> 1, quiz_id |-> 1, user_id |-> 1, started_at |-> 0,
                          finished_at |-> 0, score |-> 0, passed |-> TRUE]>>
    /\ resp = NoResponse
    /\ pc = [t \in ThreadIds |-> "idle"]
    /\ req = [t \in ThreadIds |-> None]
    /\ tresp = [t \in ThreadIds |-> NoResponse]
    /\ user_roles = [u \in DOMAIN users |-> "staff"]
    /\ credentials = <<>>
    /\ invites = <<>>
    /\ sessions = [u \in TelegramUsers |-> Session]
    /\ sent = NothingSent

\* User 2, who has not passed the monthly test, has opened shift 1 without an
\* opening amount and user 1 has opened shift 2 with one.
InitClose ==
    InitWithShifts({ << OpenedAtStart(1, 2, <<>>),
                        OpenedAtStart(2, 1, <<CashLog("open", 100, 0)>>) >> })

\* One shift is open: of user 1 or of user 2.
InitCloseOrder ==
    InitWithShifts({ << OpenedAtStart(1, 2, <<>>) >>,
                     << OpenedAtStart(1, 1, <<CashLog("open", 100, 0)>>) >> })

NextClose ==
    \/ Tick
    \/ \E c \in CompanyInputs, s \in ShiftInputs, p \in CloseRequests : close_shift(c, s, p)

SpecClose == InitClose /\ [][NextClose]_vars

SpecCloseOrder == InitCloseOrder /\ [][NextClose]_vars

----------------------------------------------------------------------------
\* The cash-close scenario: a deadline of 90 minutes, require_cash_close, every
\* other setting at its default.

CashClosePolicy == [ PolicySettings EXCEPT !.require_cash_close = TRUE ]

\* open_shift(C, loc1, user, checklist=["lights"], photo=None, cash_open=100.0)
ScenarioOpenRequests ==
    { [location_id |-> 1, user_id |-> u, open_checklist |-> <<"lights">>,
       open_photo_url |-> None, cash_open_amount |-> Some(100)] : u \in DOMAIN users }

\* close_shift with or without a closing amount of 150, with or without a
\* closing checklist.
ScenarioCloseRequests ==
    { [close_checklist |-> k, close_photo_url |-> None, cash_close_amount |-> ca,
       write_off_reason |-> None, notes |-> None] :
      k \in {<<>>, <<"lock">>}, ca \in {None, Some(150)} }

\* The calls follow one another within the deadline: the clock stands at 0.
NextScenario ==
    \/ set_policy(1, CashClosePolicy)
    \/ \E p \in ScenarioOpenRequests : open_shift(1, p)
    \/ \E s \in ShiftInputs, p \in ScenarioCloseRequests : close_shift(1, s, p)

SpecScenario == Init /\ [][NextScenario]_vars

----------------------------------------------------------------------------
\* The policies of two companies.

PolicyPayloads == {PolicySettings, LenientPolicy, NoTestPolicy, CashClosePolicy}

NextPolicy ==
    \/ \E c \in CompanyInputs, p \in PolicyPayloads : set_policy(c, p)
    \/ \E c \in CompanyInputs : get_policy(c)

SpecPolicy == InitFresh /\ [][NextPolicy]_vars

----------------------------------------------------------------------------
\* The admin replaces the policy while shifts are open.

\* Everything required at close, the compliance gate on, the default deadline.
StrictPolicy ==
    [ PolicySettings EXCEPT !.require_close_photo = TRUE, !.require_cash_close = TRUE ]

\* The policies the admin stores: they differ in the deadline and in every
\* setting close_shift reads.
PolicyChanges == {LenientPolicy, StrictPolicy, NoTestPolicy}

\* Close payloads: every field filled, or one of the fields missing.
PolicyChangeCloseRequests ==
    { [close_checklist |-> <<"lock">>, close_photo_url |-> Some("close.jpg"),
       cash_close_amount |-> Some(150), write_off_reason |-> None, notes |-> None],
      [close_checklist |-> <<>>, close_photo_url |-> Some("close.jpg"),
       cash_close_amount |-> Some(150), write_off_reason |-> None, notes |-> None],
      [close_checklist |-> <<"lock">>, close_photo_url |-> None,
       cash_close_amount |-> Some(150), write_off_reason |-> None, notes |-> None],
      [close_checklist |-> <<"lock">>, close_photo_url |-> Some("close.jpg"),
       cash_close_amount |-> None, write_off_reason |-> None, notes |-> None] }

\* One shift is opened, by either user, and the policy is replaced before
\* and after.
NextPolicyChange ==
    \/ Tick
    \/ \E p \in PolicyChanges : set_policy(1, p)
    \/ \E p \in ScenarioOpenRequests : shifts = <<>> /\ open_shift(1, p)
    \/ \E sh \in ShiftIds, p \in PolicyChangeCloseRequests : close_shift(1, sh, p)

SpecPolicyChange == Init /\ [][NextPolicyChange]_vars

----------------------------------------------------------------------------
\* Scoring the attempts on one quiz.

\* The store after create_company, create_user and create_quiz: quiz 1 of
\* company 1 has a passing_score of 70 and no question yet.
InitScore ==
    /\ now = 0
    /\ companies = {1}
    /\ users = (1 :> 1)
    /\ locations = <<>>
    /\ policies = <<>>
    /\ shifts = <<>>
    /\ quizzes = <<[id |-> 1, company_id |-> 1, type |-> "monthly", passing_score |-> 70]>>
    /\ quiz_questions = <<>>
    /\ quiz_attempts = <<>>
    /\ resp = NoResponse
    /\ pc = [t \in ThreadIds |-> "idle"]
    /\ req = [t \in ThreadIds |-> None]
    /\ tresp = [t \in ThreadIds |-> NoResponse]
    /\ user_roles = [u \in DOMAIN users |-> "staff"]
    /\ credentials = <<>>
    /\ invites = <<>>
    /\ sessions = [u \in TelegramUsers |-> Session]
    /\ sent = NothingSent

\* correct_answers of the questions an admin adds.
QuizQuestionCreate == { [correct_answers |-> ca] : ca \in {<<>>, <<0>>, <<0, 1>>, <<1, 0>>} }

\* The index lists a user may submit for one question.
Selections == {<<>>, <<0>>, <<0, 0>>, <<0, 1>>, <<1, 0>>}

\* answers: a dict from some of the quiz's question ids to index lists.
AnswerInputs == UNION { [D -> Selections] : D \in SUBSET (1..Len(quiz_questions)) }

NextScore ==
    \/ \E q \in QuizInputs, p \in QuizQuestionCreate : add_quiz_question(1, q, p)
    \/ \E q \in QuizInputs, a \in AnswerInputs :
         create_quiz_attempt(1, q, [user_id |-> 1, answers |-> a])

SpecScore == InitScore /\ [][NextScore]_vars

----------------------------------------------------------------------------
\* The score of c correct answers out of n questions.

\* Questions the scored quiz may have.
MaxScoredQuestions == 8

\* The store after create_company, create_user, create_quiz with a
\* passing_score of 70 or of 80, and up to MaxScoredQuestions calls of
\* add_quiz_question, each with correct_answers [0].
InitRound ==
    /\ now = 0
    /\ companies = {1}
    /\ users = (1 :> 1)
    /\ locations = <<>>
    /\ policies = <<>>
    /\ shifts = <<>>
    /\ \E ps \in {70, 80} :
         quizzes = <<[id |-> 1, company_id |-> 1, type |-> "monthly", passing_score |-> ps]>>
    /\ \E n \in 0..MaxScoredQuestions :
         quiz_questions = [i \in 1..n |-> [id |-> i, quiz_id |-> 1, correct_answers |-> <<0>>]]
    /\ quiz_attempts = <<>>
    /\ resp = NoResponse
    /\ pc = [t \in ThreadIds |-> "idle"]
    /\ req = [t \in ThreadIds |-> None]
    /\ tresp = [t \in ThreadIds |-> NoResponse]
    /\ user_roles = [u \in DOMAIN users |-> "staff"]
    /\ credentials = <<>>
    /\ invites = <<>>
    /\ sessions = [u \in TelegramUsers |-> Session]
    /\ sent = NothingSent

\* answers that select [0] for the first c questions and [1] for the others.
FirstRight(c) == [i \in 1..Len(quiz_questions) |-> IF i <= c THEN <<0>> ELSE <<1>>]

RoundAnswers == { FirstRight(c) : c \in 0..Len(quiz_questions) }

NextRound ==
    \E q \in QuizInputs, a \in RoundAnswers :
        create_quiz_attempt(1, q, [user_id |-> 1, answers |-> a])

SpecRound == InitRound /\ [][NextRound]_vars

----------------------------------------------------------------------------
\* Attempts, questions added afterwards and shifts side by side.

\* The store after create_company, create_user, create_location and
\* create_quiz: the monthly quiz 1 has a passing_score of 70 and no question,
\* so user 1 has not passed it and the default policy blocks the close.
InitAttempts ==
    /\ now = 0
    /\ companies = {1}
    /\ users = (1 :> 1)
    /\ locations = (1 :> 1)
    /\ policies = <<>>
    /\ shifts = <<>>
    /\ quizzes = <<[id |-> 1, company_id |-> 1, type |-> "monthly", passing_score |-> 70]>>
    /\ quiz_questions = <<>>
    /\ quiz_attempts = <<>>
    /\ resp = NoResponse
    /\ pc = [t \in ThreadIds |-> "idle"]
    /\ req = [t \in ThreadIds |-> None]
    /\ tresp = [t \in ThreadIds |-> NoResponse]
    /\ user_roles = [u \in DOMAIN users |-> "staff"]
    /\ credentials = <<>>
    /\ invites = <<>>
    /\ sessions = [u \in TelegramUsers |-> Session]
    /\ sent = NothingSent

\* answers: nothing, or [0] for question 1.
AttemptAnswers == { <<>>, << <<0>> >> }

NextAttempts ==
    \/ Tick
    \/ \E q \in QuizInputs : add_quiz_question(1, q, [correct_answers |-> <<0>>])
    \/ \E q \in QuizInputs, a \in AttemptAnswers :
         create_quiz_attempt(1, q, [user_id |-> 1, answers |-> a])
    \/ \E p \in ConcOpenRequest : open_shift(1, p)
    \/ \E sh \in ShiftInputs, p \in { q \in ConcCloseRequest : q.cash_close_amount = Some(150) } :
         close_shift(1, sh, p)

SpecAttempts == InitAttempts /\ [][NextAttempts]_vars

----------------------------------------------------------------------------
\* Owners onboard their companies and open shifts in them.

\* Store(): every collection empty.
InitEmpty ==
    /\ now = 0
    /\ companies = {}
    /\ users = <<>>
    /\ locations = <<>>
    /\ policies = <<>>
    /\ shifts = <<>>
    /\ quizzes = <<>>
    /\ quiz_questions = <<>>
    /\ quiz_attempts = <<>>
    /\ resp = NoResponse
    /\ pc = [t \in ThreadIds |-> "idle"]
    /\ req = [t \in ThreadIds |-> None]
    /\ tresp = [t \in ThreadIds |-> NoResponse]
    /\ user_roles = <<>>
    /\ credentials = <<>>
    /\ invites = <<>>
    /\ sessions = [u \in TelegramUsers |-> Session]
    /\ sent = NothingSent

\* The onboarding requests: three usernames; no location name, an empty one
\* or a name.
OwnerOnboardingRequest ==
    { [username |-> u, location_name |-> l] :
      u \in {"ann", "bob", "eve"}, l \in {None, Some(""), Some("Main")} }

\* open_shift calls as <<company_id, payload>>: a user opens a shift in the
\* company and at a location of the company the user belongs to.
OwnCompanyOpenCalls ==
    { call \in { <<users[u], [location_id |-> l, user_id |-> u, open_checklist |-> <<"lights">>,
                               open_photo_url |-> None, cash_open_amount |-> None]>> :
                  u \in DOMAIN users, l \in DOMAIN locations } :
        locations[call[2].location_id] = call[1] }

NextOnboard ==
    \/ \E p \in OwnerOnboardingRequest : onboard_owner(p)
    \/ \E call \in OwnCompanyOpenCalls : open_shift(call[1], call[2])

SpecOnboard == InitEmpty /\ [][NextOnboard]_vars

----------------------------------------------------------------------------
\* Two tenants.

\* The store after two onboardings with a location each, each company then
\* storing LenientPolicy: company c has user c and location c.
InitTenants ==
    /\ now = 0
    /\ companies = {1, 2}
    /\ users = (1 :> 1) @@ (2 :> 2)
    /\ locations = (1 :> 1) @@ (2 :> 2)
    /\ policies = (1 :> LenientPolicy) @@ (2 :> LenientPolicy)
    /\ shifts = <<>>
    /\ quizzes = <<>>
    /\ quiz_questions = <<>>
    /\ quiz_attempts = <<>>
    /\ resp = NoResponse
    /\ pc = [t \in ThreadIds |-> "idle"]
    /\ req = [t \in ThreadIds |-> None]
    /\ tresp = [t \in ThreadIds |-> NoResponse]
    /\ user_roles = (1 :> "owner") @@ (2 :> "owner")
    /\ credentials = << [id |-> 1, company_id |-> 1, user_id |-> 1, username |-> "ann"],
                        [id |-> 2, company_id |-> 2, user_id |-> 2, username |-> "bob"] >>
    /\ invites = << [code |-> 1, company_id |-> 1, role_default |-> "staff"],
                    [code |-> 2, company_id |-> 2, role_default |-> "staff"] >>
    /\ sessions = [u \in TelegramUsers |-> Session]
    /\ sent = NothingSent

\* close_shift payload of the tenants.
TenantCloseRequest ==
    [close_checklist |-> <<"lock">>, close_photo_url |-> None, cash_close_amount |-> Some(150),
     write_off_reason |-> None, notes |-> None]

\* open_shift payload: user_id at location_id.
TenantOpenRequest(user_id, location_id) ==
    [location_id |-> location_id, user_id |-> user_id, open_checklist |-> <<"lights">>,
     open_photo_url |-> None, cash_open_amount |-> None]

\* Every caller names its own company's user and location when it opens, and
\* any shift id when it closes.
NextTenants ==
    \/ Tick
    \/ \E c \in companies : open_shift(c, TenantOpenRequest(c, c))
    \/ \E c \in companies, sh \in ShiftInputs : close_shift(c, sh, TenantCloseRequest)

SpecTenants == InitTenants /\ [][NextTenants]_vars

\* A caller may also name the other company's user or location when it opens.
NextCrossTenant ==
    \/ \E c \in companies, u \in DOMAIN users, l \in DOMAIN locations :
         open_shift(c, TenantOpenRequest(u, l))
    \/ \E c \in companies, sh \in ShiftInputs : close_shift(c, sh, TenantCloseRequest)

SpecCrossTenant == InitTenants /\ [][NextCrossTenant]_vars

----------------------------------------------------------------------------
\* Two Telegram users talk to the bot.

\* The store after one onboarding posted to the backend with username "-"
\* and no location name.
InitBot ==
    /\ now = 0
    /\ companies = {1}
    /\ users = (1 :> 1)
    /\ locations = <<>>
    /\ policies = <<>>
    /\ shifts = <<>>
    /\ quizzes = <<>>
    /\ quiz_questions = <<>>
    /\ quiz_attempts = <<>>
    /\ resp = NoResponse
    /\ pc = [t \in ThreadIds |-> "idle"]
    /\ req = [t \in ThreadIds |-> None]
    /\ tresp = [t \in ThreadIds |-> NoResponse]
    /\ user_roles = (1 :> "owner")
    /\ credentials = << [id |-> 1, company_id |-> 1, user_id |-> 1, username |-> "-"] >>
    /\ invites = << [code |-> 1, company_id |-> 1, role_default |-> "staff"] >>
    /\ sessions = [u \in TelegramUsers |-> Session]
    /\ sent = NothingSent

\* The texts of user 1: /start, the owner button and "-".  User 2 sends /start.
Texts(user_id) ==
    IF user_id = 1 THEN {"/Start", "vladelets", "-"} ELSE {"/Start"}

CallbackData == {"role_owner", "role_staff", "menu"}

UpdateIds == 1..MaxUpdateId

NextBot ==
    \/ \E id \in UpdateIds, u \in TelegramUsers, reply \in InviteReplies :
         \E text \in Texts(u) : message_update(id, u, text, reply)
    \/ \E id \in UpdateIds, data \in CallbackData : callback_update(id, 1, data)

SpecBot == InitBot /\ [][NextBot]_vars

\* Both users send /start and the owner button as texts, in updates that
\* Telegram delivers in any order and any number of times; user 1 also
\* presses the owner button of an earlier prompt.
DedupTexts == {"/Start", "vladelets"}

NoInvite == [ok |-> FALSE, company_name |-> None]

NextDedup ==
    \/ \E id \in UpdateIds, u \in TelegramUsers, text \in DedupTexts :
         message_update(id, u, text, NoInvite)
    \/ \E id \in UpdateIds : callback_update(id, 1, "role_owner")

SpecDedup == InitBot /\ [][NextDedup]_vars

\* User 1 walks through both forms and the staff menu: /start written with a
\* capital and spaces, the staff role word, the profile and recipes buttons of
\* the staff menu, and the callbacks.
FormTexts == {" /Start ", "sotrudnik", "profil", "retsepty"}

NextForms ==
    \/ \E id \in UpdateIds, text \in FormTexts, reply \in InviteReplies :
         message_update(id, 1, text, reply)
    \/ \E id \in UpdateIds, data \in CallbackData : callback_update(id, 1, data)

SpecForms == InitBot /\ [][NextForms]_vars

----------------------------------------------------------------------------
\* Vocabulary of the properties.

ShiftExpired == HTTPException(400, "Shift expired and cannot be closed")
ShiftNotOpen == HTTPException(400, "Shift is not open")
MonthlyOverdue == HTTPException(400, "Monthly test is overdue")
AlreadyOpen == HTTPException(400, "User already has an open shift")

\* shift_id is an OPEN shift of company_id: close_shift gets to its deadline test.
OpenShiftOf(company_id, shift_id) ==
    /\ company_id \in companies
    /\ shift_id \in ShiftIds
    /\ shifts[shift_id].company_id = company_id
    /\ shifts[shift_id].status = "OPEN"

Terminal(shift) == shift.status \in {"CLOSED", "EXPIRED"}

CloseEntries(shift) == { k \in 1..Len(shift.cash_logs) : shift.cash_logs[k].type = "close" }

----------------------------------------------------------------------------
\* C1. With atomic calls, in every reachable state each (company_id, user_id)
\* has at most one OPEN shift, and an open_shift for a user who already has an
\* OPEN shift in that company (and passes the earlier checks) fails with
\* "User already has an open shift" and leaves the shifts as they were.
C1_OneOpenShiftPerUser ==
    [][ /\ \A c \in companies, u \in DOMAIN users :
             Cardinality({ i \in 1..Len(shifts') :
                 /\ shifts'[i].company_id = c
                 /\ shifts'[i].user_id = u
                 /\ shifts'[i].status = "OPEN" }) <= 1
        /\ resp'.op = "open_shift" => \A c \in CompanyInputs, p \in ShiftOpenRequest :
             ( /\ \E i \in ShiftIds : /\ shifts[i].company_id = c
                                       /\ shifts[i].user_id = p.user_id
                                       /\ shifts[i].status = "OPEN"
               /\ open_shift(c, p) )
             => /\ shifts' = shifts
                /\ resp'.status # 200
                /\ _validate_shift_open(_get_policy(c), p) = Ok
                     => resp' = Response("open_shift", AlreadyOpen) ]_vars

\* A second open_shift of a user with an OPEN shift was refused while another
\* user's shift is OPEN too.
C1_Witness ==
    /\ resp = Response("open_shift", AlreadyOpen)
    /\ \E i, j \in ShiftIds :
          /\ shifts[i].status = "OPEN" /\ shifts[j].status = "OPEN"
          /\ shifts[i].user_id # shifts[j].user_id

\* C2. Concurrent open_shift requests for the same (company_id, user_id) never
\* leave two OPEN shifts for that pair.
C2_OpenSerialized ==
    \A i, j \in ShiftIds :
        ( /\ shifts[i].status = "OPEN" /\ shifts[j].status = "OPEN"
          /\ shifts[i].company_id = shifts[j].company_id
          /\ shifts[i].user_id = shifts[j].user_id )
        => i = j

\* C3. Concurrent close_shift requests for the same shift close it exactly
\* once: a shift never holds two cash-log entries of type close.
C3_CloseOnce ==
    \A i \in ShiftIds : Cardinality(CloseEntries(shifts[i])) <= 1

C5_CloseSucceeds_Original ==
    [][ resp'.op = "close_shift" => \A c \in CompanyInputs, s \in ShiftInputs, p \in ShiftCloseRequest :
          ( /\ OpenShiftOf(c, s)
            /\ now <= shifts[s].close_deadline_at
            /\ _validate_shift_close(_get_policy(c), p) = Ok
            /\ close_shift(c, s, p) )
          => /\ resp' = Response("close_shift", Ok)
             /\ shifts'[s].status = "CLOSED" ]_vars

\* C5, amended. The same when moreover tests_block_shift_closure is false or
\* the user has passed the monthly test; and a close_shift on the CLOSED shift
\* fails with "Shift is not open" and leaves the store unchanged.
C5_CloseSucceeds ==
    [][ resp'.op = "close_shift" => \A c \in CompanyInputs, s \in ShiftInputs, p \in ShiftCloseRequest :
          close_shift(c, s, p) =>
            /\ ( /\ OpenShiftOf(c, s)
                 /\ now <= shifts[s].close_deadline_at
                 /\ _validate_shift_close(_get_policy(c), p) = Ok
                 /\ \/ ~_get_policy(c).tests_block_shift_closure
                    \/ _monthly_test_passed(c, shifts[s].user_id, now) )
               => /\ resp' = Response("close_shift", Ok)
                  /\ shifts'[s].status = "CLOSED"
            /\ ( /\ c \in companies /\ s \in ShiftIds
                 /\ shifts[s].company_id = c /\ shifts[s].status = "CLOSED" )
               => /\ resp' = Response("close_shift", ShiftNotOpen)
                  /\ store' = store ]_vars

\* A shift was closed and a second close_shift on it was refused.
C5_Witness ==
    /\ resp = Response("close_shift", ShiftNotOpen)
    /\ \E i \in ShiftIds : shifts[i].status = "CLOSED" /\ shifts[i].close_data # None

\* C6. A close_shift on an OPEN shift of the company marks it EXPIRED exactly
\* when now > close_deadline_at; then only status and end_at (= now) change,
\* the call fails with the expired error and list_shifts returns the shift as
\* EXPIRED; a shift with a deadline of 0 minutes closed after its start expires.
C6_ExpiryIffLate ==
    [][ resp'.op = "close_shift" => \A c \in CompanyInputs, s \in ShiftInputs, p \in ShiftCloseRequest :
          (OpenShiftOf(c, s) /\ close_shift(c, s, p)) =>
            /\ (now > shifts[s].close_deadline_at) <=> (shifts'[s].status = "EXPIRED")
            /\ (now > shifts[s].close_deadline_at) <=> (resp' = Response("close_shift", ShiftExpired))
            /\ now > shifts[s].close_deadline_at =>
                 /\ shifts'[s] = [shifts[s] EXCEPT !.status = "EXPIRED", !.end_at = Some(now)]
                 /\ \E x \in list_shifts(c)' : x.id = s /\ x.status = "EXPIRED"
            /\ ( /\ shifts[s].close_deadline_at = shifts[s].start_at
                 /\ now > shifts[s].start_at ) => shifts'[s].status = "EXPIRED" ]_vars

\* One shift was closed at exactly its deadline, another with a deadline of 0
\* minutes was attempted a minute later and is EXPIRED.
C6_Witness ==
    /\ resp = Response("close_shift", ShiftExpired)
    /\ \E i, j \in ShiftIds :
          /\ shifts[i].status = "CLOSED" /\ shifts[i].end_at = Some(shifts[i].close_deadline_at)
          /\ shifts[j].status = "EXPIRED" /\ shifts[j].close_deadline_at = shifts[j].start_at
          /\ shifts[j].end_at = Some(shifts[j].start_at + 1)

\* C7. Lateness always wins: a close_shift on an OPEN shift after its deadline
\* answers with the expired error and never with CLOSED, the monthly-test
\* error or a required-field error, whatever the payload, the policy and the
\* compliance of the user.
C7_LatenessWins ==
    [][ resp'.op = "close_shift" => \A c \in CompanyInputs, s \in ShiftInputs, p \in ShiftCloseRequest :
          ( /\ OpenShiftOf(c, s)
            /\ now > shifts[s].close_deadline_at
            /\ close_shift(c, s, p) )
          => /\ resp'.detail = ShiftExpired.detail
             /\ resp'.detail \notin { "ok", MonthlyOverdue.detail, "Closing checklist required",
                                       "Closing photo required", "Closing cash amount required" }
             /\ shifts'[s].status # "CLOSED" ]_vars

\* Under the default policy (compliance gate on, closing checklist required)
\* the shift of user 2, who has not passed the monthly test, was attempted
\* late and is EXPIRED.
C7_Witness ==
    /\ resp = Response("close_shift", ShiftExpired)
    /\ policies = <<>>
    /\ \E i \in ShiftIds :
          /\ shifts[i].status = "EXPIRED" /\ shifts[i].user_id = 2
          /\ ~_monthly_test_passed(1, 2, shifts[i].end_at[1])

\* C8. Shifts are created by open_shift only, changed by close_shift only and
\* never deleted; the passage of time changes no shift.
C8_ShiftLifecycle ==
    [][ /\ Len(shifts') >= Len(shifts)
        /\ \A i \in ShiftIds : shifts'[i].id = shifts[i].id
        /\ Len(shifts') > Len(shifts)
             => /\ resp' = Response("open_shift", Ok)
                /\ Len(shifts') = Len(shifts) + 1
                /\ SubSeq(shifts', 1, Len(shifts)) = shifts
        /\ (\E i \in ShiftIds : shifts'[i] # shifts[i]) => resp'.op = "close_shift"
        /\ now' # now => shifts' = shifts ]_vars

\* A shift is still OPEN although its deadline has passed.
C8_Witness ==
    \E i \in ShiftIds : shifts[i].status = "OPEN" /\ now > shifts[i].close_deadline_at

\* C9. A close_shift that fails with anything but the expired error leaves
\* the whole store as it was.
C9_FailedCloseChangesNothing ==
    [][ resp'.op = "close_shift" => \A c \in CompanyInputs, s \in ShiftInputs, p \in ShiftCloseRequest :
          ( /\ resp'.status # 200
            /\ resp' # Response("close_shift", ShiftExpired)
            /\ close_shift(c, s, p) )
          => store' = store ]_vars

\* A close_shift on an OPEN shift failed on a missing required field.
C9_Witness ==
    /\ resp = Response("close_shift", HTTPException(400, "Closing checklist required"))
    /\ \E i \in ShiftIds : shifts[i].status = "OPEN"

\* C10. On a close_shift of an OPEN shift not after its deadline: with
\* tests_block_shift_closure and a user who has not passed the monthly test the
\* call fails with "Monthly test is overdue" whatever the payload; without
\* tests_block_shift_closure it never fails with that error.
C10_ComplianceGate ==
    [][ resp'.op = "close_shift" => \A c \in CompanyInputs, s \in ShiftInputs, p \in ShiftCloseRequest :
          ( /\ OpenShiftOf(c, s)
            /\ now <= shifts[s].close_deadline_at
            /\ close_shift(c, s, p) )
          => /\ ( /\ _get_policy(c).tests_block_shift_closure
                  /\ ~_monthly_test_passed(c, shifts[s].user_id, now) )
                => /\ resp' = Response("close_shift", MonthlyOverdue)
                   /\ shifts' = shifts
             /\ ~_get_policy(c).tests_block_shift_closure
                => resp' # Response("close_shift", MonthlyOverdue) ]_vars

\* The close of the shift of user 2, who has not passed the monthly test, was
\* refused under a policy with tests_block_shift_closure.
C10_Witness ==
    /\ resp = Response("close_shift", MonthlyOverdue)
    /\ _get_policy(1).tests_block_shift_closure
    /\ \E i \in ShiftIds : shifts[i].status = "OPEN" /\ shifts[i].user_id = 2

\* The company has no quiz of type "monthly".
NoMonthlyQuiz(company_id) ==
    \A q \in 1..Len(quizzes) : ~(quizzes[q].company_id = company_id /\ quizzes[q].type = "monthly")

\* C11. While a company has monthly_test_required and no monthly quiz, none
\* of its users is compliant; if it also has tests_block_shift_closure, every
\* close_shift of one of its OPEN shifts not after the deadline fails with
\* "Monthly test is overdue" and leaves the shift OPEN, and no step takes a
\* shift of that company to CLOSED.
C11_FailClosed ==
    [][ \A c \in companies :
          ( _get_policy(c).monthly_test_required /\ NoMonthlyQuiz(c) )
          => /\ \A u \in DOMAIN users : ~_monthly_test_passed(c, u, now)
             /\ _get_policy(c).tests_block_shift_closure
                => /\ \A i \in ShiftIds :
                        ( shifts[i].company_id = c /\ shifts'[i].status = "CLOSED" )
                        => shifts[i].status = "CLOSED"
                   /\ \A s \in ShiftInputs, p \in ShiftCloseRequest :
                        ( /\ OpenShiftOf(c, s)
                          /\ now <= shifts[s].close_deadline_at
                          /\ close_shift(c, s, p) )
                        => /\ resp' = Response("close_shift", MonthlyOverdue)
                           /\ shifts'[s].status = "OPEN" ]_vars

\* A close_shift in company 1 was refused for the monthly test while company 1
\* had quizzes of other kinds only and company 2 had a monthly quiz.
C11_Witness ==
    /\ resp = Response("close_shift", MonthlyOverdue)
    /\ _get_policy(1).monthly_test_required
    /\ _get_policy(1).tests_block_shift_closure
    /\ NoMonthlyQuiz(1)
    /\ ~NoMonthlyQuiz(2)
    /\ \E q \in 1..Len(quizzes) : quizzes[q].company_id = 1
    /\ \E i \in ShiftIds : shifts[i].status = "OPEN"

\* An attempt that counts for the monthly test of company_id and user_id at
\* instant t: passed, by that user, on a monthly quiz of that company, finished
\* no more than 30 days before t.
CountingAttempt(a, company_id, user_id, t) ==
    /\ a.passed
    /\ a.user_id = user_id
    /\ quizzes[a.quiz_id].type = "monthly"
    /\ quizzes[a.quiz_id].company_id = company_id
    /\ a.finished_at >= t - ThirtyDays

\* C12. A user is compliant in a company exactly when the company does not
\* require the monthly test, or the user has a passed attempt on a monthly quiz
\* of that company finished no more than 30 days ago (the boundary included);
\* failed attempts, other quiz types and other companies' quizzes never count.
C12_ComplianceWindow ==
    \A c \in companies, u \in DOMAIN users :
        _monthly_test_passed(c, u, now)
        <=> \/ ~_get_policy(c).monthly_test_required
            \/ \E i \in 1..Len(quiz_attempts) : CountingAttempt(quiz_attempts[i], c, u, now)

\* Exactly 30 days after user 1 passed the monthly quiz, and after a later
\* failed attempt of user 1 on a monthly quiz, user 1 is still compliant in
\* company 1, where the test is required.
C12_Witness ==
    /\ now = ThirtyDays
    /\ _get_policy(1).monthly_test_required
    /\ Len(quiz_attempts) = 2
    /\ quiz_attempts[1].user_id = 1 /\ quiz_attempts[1].passed /\ quiz_attempts[1].finished_at = 0
    /\ quiz_attempts[1].quiz_id = 1
    /\ quiz_attempts[2].user_id = 1 /\ ~quiz_attempts[2].passed /\ quiz_attempts[2].finished_at = ThirtyDays
    /\ quiz_attempts[2].quiz_id = 2
    /\ _monthly_test_passed(1, 1, now)

\* The checks of open_shift as <<fails, error>> pairs, in the order the
\* handler is to apply them.
OpenChecks(c, p) ==
    << << c \notin companies, HTTPException(404, "Company not found") >>,
       << _get_policy(c).require_opening_checklist /\ Len(p.open_checklist) = 0,
          HTTPException(400, "Opening checklist required") >>,
       << _get_policy(c).require_open_photo /\ p.open_photo_url \in {None, Some("")},
          HTTPException(400, "Opening photo required") >>,
       << _get_policy(c).require_cash_open /\ p.cash_open_amount = None,
          HTTPException(400, "Opening cash amount required") >>,
       << p.user_id \notin DOMAIN users, HTTPException(404, "User not found") >>,
       << p.location_id \notin DOMAIN locations, HTTPException(404, "Location not found") >>,
       << \E i \in ShiftIds : /\ shifts[i].status = "OPEN"
                              /\ shifts[i].company_id = c
                              /\ shifts[i].user_id = p.user_id,
          AlreadyOpen >> >>

\* The error of the first failing check of a list, Ok when none fails.
FirstFailure(checks) ==
    IF \A i \in DOMAIN checks : ~checks[i][1] THEN Ok
    ELSE checks[CHOOSE i \in DOMAIN checks :
                    checks[i][1] /\ \A j \in 1..(i - 1) : ~checks[j][1]][2]

\* C13. open_shift answers with the first failure in the order: company,
\* opening checklist, opening photo, opening cash amount, user, location,
\* OPEN shift of the same (company_id, user_id); a failed call creates no
\* shift and leaves the store unchanged.
C13_OpenCheckOrder ==
    [][ resp'.op = "open_shift" => \A c \in CompanyInputs, p \in OpenRequests :
          open_shift(c, p)
          => /\ resp' = Response("open_shift", FirstFailure(OpenChecks(c, p)))
             /\ resp'.status # 200 => store' = store ]_vars

\* An open_shift that passed every earlier check was refused for the OPEN
\* shift user 1 already has.
C13_Witness ==
    /\ resp = Response("open_shift", AlreadyOpen)
    /\ \E i \in ShiftIds : shifts[i].status = "OPEN" /\ shifts[i].user_id = 1
    /\ _get_policy(1).require_opening_checklist
    /\ _get_policy(1).require_open_photo
    /\ _get_policy(1).require_cash_open

\* C14. A successful open_shift appends exactly one shift: a fresh id, status
\* OPEN, no end_at, no close_data, start_at the current instant, the deadline
\* start_at plus the company's deadline minutes at that moment, open_data the
\* supplied checklist and photo url, and one "open" cash log entry with the
\* supplied amount when an amount (0 included) is supplied, none otherwise;
\* every other record is unchanged.
C14_OpenEffect ==
    [][ resp'.op = "open_shift" => \A c \in CompanyInputs, p \in OpenRequests :
          ( resp'.status = 200 /\ open_shift(c, p) )
          => /\ Len(shifts') = Len(shifts) + 1
             /\ \A i \in ShiftIds : shifts'[i] = shifts[i] /\ shifts'[Len(shifts')].id # shifts[i].id
             /\ shifts'[Len(shifts')].company_id = c
             /\ shifts'[Len(shifts')].user_id = p.user_id
             /\ shifts'[Len(shifts')].location_id = p.location_id
             /\ shifts'[Len(shifts')].status = "OPEN"
             /\ shifts'[Len(shifts')].end_at = None
             /\ shifts'[Len(shifts')].close_data = None
             /\ shifts'[Len(shifts')].start_at = now
             /\ shifts'[Len(shifts')].close_deadline_at
                  = now + _get_policy(c).shift_close_deadline_minutes
             /\ shifts'[Len(shifts')].open_data
                  = [checklist |-> p.open_checklist, photo_url |-> p.open_photo_url]
             /\ p.cash_open_amount = None => shifts'[Len(shifts')].cash_logs = <<>>
             /\ p.cash_open_amount # None
                  => /\ Len(shifts'[Len(shifts')].cash_logs) = 1
                     /\ shifts'[Len(shifts')].cash_logs[1].type = "open"
                     /\ shifts'[Len(shifts')].cash_logs[1].amount = p.cash_open_amount[1]
             /\ UNCHANGED <<companies, users, locations, policies, quizzes, quiz_questions, quiz_attempts>> ]_vars

\* A shift was opened after the first instant with an opening amount of 0,
\* under a stored policy: its cash log holds one "open" entry of 0.
C14_Witness ==
    /\ resp = Response("open_shift", Ok)
    /\ 1 \in DOMAIN policies
    /\ \E i \in ShiftIds :
         /\ shifts[i].start_at > 0
         /\ Len(shifts[i].cash_logs) = 1
         /\ shifts[i].cash_logs[1].amount = 0

\* The checks of close_shift as <<fails, error>> pairs, in the order the
\* handler is to apply them.  A check that reads the shift fails only if the
\* lookup before it found the shift.
CloseChecks(c, s, p) ==
    << << c \notin companies, HTTPException(404, "Company not found") >>,
       << ~(s \in ShiftIds /\ shifts[s].company_id = c), HTTPException(404, "Shift not found") >>,
       << s \in ShiftIds /\ shifts[s].status # "OPEN", ShiftNotOpen >>,
       << s \in ShiftIds /\ now > shifts[s].close_deadline_at, ShiftExpired >>,
       << /\ s \in ShiftIds
          /\ _get_policy(c).tests_block_shift_closure
          /\ ~_monthly_test_passed(c, shifts[s].user_id, now),
          MonthlyOverdue >>,
       << _get_policy(c).require_closing_checklist /\ Len(p.close_checklist) = 0,
          HTTPException(400, "Closing checklist required") >>,
       << _get_policy(c).require_close_photo /\ p.close_photo_url \in {None, Some("")},
          HTTPException(400, "Closing photo required") >>,
       << _get_policy(c).require_cash_close /\ p.cash_close_amount = None,
          HTTPException(400, "Closing cash amount required") >> >>

\* C15. close_shift answers with the first failure in the order: company,
\* shift (unknown, or of another company), shift not OPEN, deadline passed,
\* monthly test overdue, closing checklist, closing photo, closing cash amount
\* (an amount of 0 is accepted).
C15_CloseCheckOrder ==
    [][ resp'.op = "close_shift" => \A c \in CompanyInputs, s \in ShiftInputs, p \in CloseRequests :
          close_shift(c, s, p)
          => resp' = Response("close_shift", FirstFailure(CloseChecks(c, s, p))) ]_vars

\* A close_shift that passed the lookups, the deadline and the compliance gate
\* of a policy with every closing requirement was refused for its last check.
C15_Witness ==
    /\ resp = Response("close_shift", HTTPException(400, "Closing cash amount required"))
    /\ _get_policy(1).tests_block_shift_closure
    /\ _get_policy(1).require_closing_checklist
    /\ _get_policy(1).require_close_photo
    /\ shifts[1].status = "OPEN"

\* C16. A successful close_shift sets the shift's status to CLOSED, end_at to
\* the current instant and close_data to the supplied checklist, photo url,
\* write-off reason and notes; it appends one "close" cash log entry with the
\* supplied amount exactly when an amount (0 included) is supplied; the
\* shift's other fields and earlier cash log entries, and every other shift,
\* are unchanged.
C16_CloseEffect ==
    [][ resp'.op = "close_shift" => \A c \in CompanyInputs, s \in ShiftInputs, p \in CloseRequests :
          ( resp'.status = 200 /\ close_shift(c, s, p) )
          => /\ DOMAIN shifts' = DOMAIN shifts
             /\ \A i \in ShiftIds \ {s} : shifts'[i] = shifts[i]
             /\ shifts'[s].status = "CLOSED"
             /\ shifts'[s].end_at = Some(now)
             /\ shifts'[s].close_data
                  = Some([ checklist |-> p.close_checklist, photo_url |-> p.close_photo_url,
                           write_off_reason |-> p.write_off_reason, notes |-> p.notes ])
             /\ p.cash_close_amount = None => shifts'[s].cash_logs = shifts[s].cash_logs
             /\ p.cash_close_amount # None
                  => /\ Len(shifts'[s].cash_logs) = Len(shifts[s].cash_logs) + 1
                     /\ SubSeq(shifts'[s].cash_logs, 1, Len(shifts[s].cash_logs)) = shifts[s].cash_logs
                     /\ shifts'[s].cash_logs[Len(shifts'[s].cash_logs)].type = "close"
                     /\ shifts'[s].cash_logs[Len(shifts'[s].cash_logs)].amount = p.cash_close_amount[1]
             /\ \A f \in {"id", "company_id", "location_id", "user_id", "start_at",
                           "close_deadline_at", "open_data"} : shifts'[s][f] = shifts[s][f]
             /\ UNCHANGED <<companies, users, locations, policies, quizzes, quiz_questions, quiz_attempts>> ]_vars

\* After the first instant a close_shift closed one shift with notes, a
\* write-off reason and a closing amount while the other shift stayed OPEN.
C16_Witness ==
    /\ resp = Response("close_shift", Ok)
    /\ Len(shifts) = 2
    /\ shifts[1].status = "OPEN"
    /\ shifts[2].status = "CLOSED"
    /\ shifts[2].end_at = Some(1)
    /\ shifts[2].close_data[1].notes # None
    /\ Len(shifts[2].cash_logs) = 2

\* The positions of the entries of one type in a cash log.
EntriesOfType(cash_logs, type) == { k \in 1..Len(cash_logs) : cash_logs[k].type = type }

\* At most one "open" entry, the first if present; at most one "close" entry,
\* the last if present and on a CLOSED shift only.
CashLogShape(shift) ==
    /\ EntriesOfType(shift.cash_logs, "open") \subseteq {1}
    /\ EntriesOfType(shift.cash_logs, "close") \subseteq {Len(shift.cash_logs)}
    /\ EntriesOfType(shift.cash_logs, "close") # {} => shift.status = "CLOSED"

\* C17. With atomic calls, every step keeps each shift's earlier cash log as a
\* prefix of its later one, and every cash log holds at most one "open" entry
\* (the first) and at most one "close" entry (the last), a "close" entry only on
\* a CLOSED shift.
C17_CashLogAppendOnly ==
    [][ /\ \A i \in ShiftIds :
             /\ Len(shifts'[i].cash_logs) >= Len(shifts[i].cash_logs)
             /\ SubSeq(shifts'[i].cash_logs, 1, Len(shifts[i].cash_logs)) = shifts[i].cash_logs
        /\ \A i \in 1..Len(shifts') : CashLogShape(shifts'[i]) ]_vars

\* A shift was closed with a closing amount: its cash log is the "open" entry
\* followed by the "close" entry.
C17_Witness ==
    /\ resp = Response("close_shift", Ok)
    /\ \E i \in ShiftIds :
         /\ shifts[i].status = "CLOSED"
         /\ Len(shifts[i].cash_logs) = 2
         /\ shifts[i].cash_logs[1].type = "open"
         /\ shifts[i].cash_logs[2].type = "close"

\* The shift s is OPEN as the scenario's open_shift left it, under the
\* scenario's policy.
ScenarioShift(s) ==
    /\ _get_policy(1) = CashClosePolicy
    /\ OpenShiftOf(1, s)
    /\ shifts[s].open_data = [checklist |-> <<"lights">>, photo_url |-> None]
    /\ Len(shifts[s].cash_logs) = 1
    /\ shifts[s].cash_logs[1].amount = 100

\* The scenario's open_shift succeeds with status OPEN and one cash log entry
\* of 100.
ScenarioOpenSucceeds ==
    \A p \in ScenarioOpenRequests :
        ( /\ _get_policy(1) = CashClosePolicy
          /\ \A i \in ShiftIds : shifts[i].status # "OPEN"
          /\ open_shift(1, p) )
        => /\ resp' = Response("open_shift", Ok)
           /\ shifts'[Len(shifts')].status = "OPEN"
           /\ Len(shifts'[Len(shifts')].cash_logs) = 1
           /\ shifts'[Len(shifts')].cash_logs[1].amount = 100

\* C18 as stated. Under the scenario's policy the open_shift succeeds; on the
\* shift it opened a close_shift without a closing amount fails, and a
\* close_shift with a closing amount of 150 succeeds with status CLOSED and two
\* cash log entries.
C18_Scenario_Original ==
    [][ /\ ScenarioOpenSucceeds
        /\ \A s \in ShiftIds, p \in ScenarioCloseRequests :
             ( ScenarioShift(s) /\ close_shift(1, s, p) )
             => /\ p.cash_close_amount = None => resp'.status = 400
                /\ p.cash_close_amount = Some(150)
                     => /\ resp' = Response("close_shift", Ok)
                        /\ shifts'[s].status = "CLOSED"
                        /\ Len(shifts'[s].cash_logs) = 2 ]_vars

\* C18, amended. The same for a user who has passed the monthly test and
\* close calls that carry a closing checklist: the close_shift without a
\* closing amount fails with "Closing cash amount required" and the one with
\* 150 succeeds with status CLOSED and two cash log entries.
C18_Scenario ==
    [][ /\ ScenarioOpenSucceeds
        /\ \A s \in ShiftIds, p \in ScenarioCloseRequests :
             ( /\ ScenarioShift(s)
               /\ \E a \in 1..Len(quiz_attempts) :
                     CountingAttempt(quiz_attempts[a], 1, shifts[s].user_id, now)
               /\ p.close_checklist # <<>>
               /\ close_shift(1, s, p) )
             => /\ p.cash_close_amount = None
                     => /\ resp' = Response("close_shift", HTTPException(400, "Closing cash amount required"))
                        /\ shifts' = shifts
                /\ p.cash_close_amount = Some(150)
                     => /\ resp' = Response("close_shift", Ok)
                        /\ shifts'[s].status = "CLOSED"
                        /\ Len(shifts'[s].cash_logs) = 2
                        /\ shifts'[s].cash_logs[2].amount = 150 ]_vars

\* The end of the scenario: under the scenario's policy the shift of user 1
\* is CLOSED with the cash log entries 100 and 150.
C18_Witness ==
    /\ _get_policy(1) = CashClosePolicy
    /\ resp = Response("close_shift", Ok)
    /\ \E i \in ShiftIds :
         /\ shifts[i].user_id = 1
         /\ shifts[i].status = "CLOSED"
         /\ Len(shifts[i].cash_logs) = 2
         /\ shifts[i].cash_logs[1].amount = 100
         /\ shifts[i].cash_logs[2].amount = 150

\* C19. get_policy of an existing company succeeds, and for a company with no
\* stored policy it returns the defaults (deadline 90, tests_block_shift_closure
\* and monthly_test_required true); after set_policy(c, p) the policy of c is
\* exactly p and the policy of every other company is what it was.
C19_PolicyLookup ==
    [][ /\ resp'.op = "get_policy" => \A c \in companies :
             get_policy(c)
             => /\ resp'.status = 200
                /\ c \notin DOMAIN policies
                     => /\ resp'.body.shift_close_deadline_minutes = 90
                        /\ resp'.body.tests_block_shift_closure
                        /\ resp'.body.monthly_test_required
                        /\ resp'.body = PolicySettings
        /\ resp'.op = "set_policy" => \A c \in companies, p \in PolicyPayloads :
             set_policy(c, p)
             => /\ resp'.status = 200
                /\ get_policy_result(c)'.status = 200
                /\ get_policy_result(c)'.body = p
                /\ \A other \in companies \ {c} :
                     get_policy_result(other)' = get_policy_result(other) ]_vars

\* get_policy of company 2, which never stored a policy, returned the defaults
\* after company 1 had stored a policy that differs from them.
C19_Witness ==
    /\ resp.op = "get_policy"
    /\ resp.status = 200
    /\ resp.body = PolicySettings
    /\ 2 \notin DOMAIN policies
    /\ 1 \in DOMAIN policies
    /\ policies[1] = LenientPolicy

\* The set of the indices of an index list.
IndexSet(indices) == { indices[k] : k \in 1..Len(indices) }

\* The questions of a quiz an answers dict gets right when a question counts
\* as correct exactly if the set of selected indices equals the set of its
\* correct answers, a question without an entry being the empty selection.
CorrectBySetEquality(quiz_id, answers) ==
    { i \in questions_of(quiz_id) :
        IndexSet(IF i \in DOMAIN answers THEN answers[i] ELSE <<>>)
          = IndexSet(quiz_questions[i].correct_answers) }

\* C20. The score of an attempt on a quiz with questions counts a question
\* as correct exactly when the set of selected indices equals the set of
\* correct answers, whatever the order and the duplicates ([0, 0] against [0]
\* is correct), a question with no submitted answer being compared as the
\* empty selection.
C20_SetEquality ==
    [][ resp'.op = "create_quiz_attempt" => \A a \in AnswerInputs :
          ( /\ resp'.status = 200
            /\ questions_of(1) # {}
            /\ create_quiz_attempt(1, 1, [user_id |-> 1, answers |-> a]) )
          => quiz_attempts'[Len(quiz_attempts')].score
               = round(Cardinality(CorrectBySetEquality(1, a)) * 100, Cardinality(questions_of(1))) ]_vars

\* The questions of quiz 1 whose submitted index list is its correct_answers.
RightAnswers(a) == { i \in questions_of(1) : a[i] = quiz_questions[i].correct_answers }

\* s is an integer nearest to 100 * c / n.
NearestPercent(s, c, n) ==
    /\ 2 * (100 * c - s * n) <= n
    /\ 2 * (s * n - 100 * c) <= n

C22_AttemptsImmutable ==
    [][ /\ \A i \in 1..Len(quiz_attempts) :
             /\ i <= Len(quiz_attempts')
             /\ quiz_attempts'[i] = quiz_attempts[i]
        /\ Len(quiz_attempts') =
             IF resp' = Response("create_quiz_attempt", Ok) /\ now' = now /\ shifts' = shifts
                /\ quiz_questions' = quiz_questions
             THEN Len(quiz_attempts) + 1 ELSE Len(quiz_attempts) ]_vars

\* The first attempt, made when the quiz had no question, still has score 0
\* and passed false after a question was added, a later attempt scored 100 and
\* a shift was closed.
C22_Witness ==
    /\ Len(quiz_attempts) = 2
    /\ quiz_attempts[1].score = 0 /\ ~quiz_attempts[1].passed
    /\ quiz_attempts[2].score = 100 /\ quiz_attempts[2].finished_at > quiz_attempts[1].finished_at
    /\ Len(quiz_questions) >= 1
    /\ \E i \in ShiftIds : shifts[i].status = "CLOSED"

\* C23. A duplicate open shift and a duplicate username are answered with a
\* status of their own (409), not the 400 of a validation error nor the 404 of
\* a missing record.
C23_ConflictStatus ==
    resp.detail \in {AlreadyOpen.detail, UsernameTaken.detail} => resp.status \notin {400, 404}

\* The records of a collection (a function from ids) that are not in it
\* before the step.
Added(before, after) == DOMAIN after \ DOMAIN before

\* C25. An onboard_owner whose username some credential already has fails
\* and creates no company, location, user, credential or invite; any other
\* creates exactly one company, one user of that company with role owner, one
\* credential of that user with the username, one invite of that company with
\* role_default staff, and one location of that company exactly when
\* location_name is non-empty.  No two credentials ever share a username.
C25_OnboardAllOrNothing ==
    [][ /\ \A i, j \in 1..Len(credentials') :
             credentials'[i].username = credentials'[j].username => i = j
        /\ resp'.op = "onboard_owner" => \A p \in OwnerOnboardingRequest :
             onboard_owner(p)
             => IF \E i \in 1..Len(credentials) : credentials[i].username = p.username
                THEN /\ resp'.status # 200
                     /\ UNCHANGED <<companies, locations, users, user_roles, credentials, invites>>
                ELSE /\ resp'.status = 200
                     /\ companies \subseteq companies'
                     /\ Cardinality(companies' \ companies) = 1
                     /\ \A c \in companies' \ companies :
                          /\ Cardinality(Added(users, users')) = 1
                          /\ \A u \in Added(users, users') :
                               /\ users'[u] = c
                               /\ user_roles'[u] = "owner"
                               /\ Len(credentials') = Len(credentials) + 1
                               /\ credentials'[Len(credentials')].username = p.username
                               /\ credentials'[Len(credentials')].user_id = u
                               /\ credentials'[Len(credentials')].company_id = c
                          /\ Len(invites') = Len(invites) + 1
                          /\ invites'[Len(invites')].company_id = c
                          /\ invites'[Len(invites')].role_default = "staff"
                          /\ Cardinality(Added(locations, locations'))
                               = IF p.location_name \in {None, Some("")} THEN 0 ELSE 1
                          /\ \A l \in Added(locations, locations') : locations'[l] = c
                     /\ \A u \in DOMAIN users : users'[u] = users[u] /\ user_roles'[u] = user_roles[u]
                     /\ \A l \in DOMAIN locations : locations'[l] = locations[l]
                     /\ \A i \in 1..Len(credentials) : credentials'[i] = credentials[i]
                     /\ \A i \in 1..Len(invites) : invites'[i] = invites[i] ]_vars

\* After one company was onboarded without a location, an onboard_owner with
\* the username of its owner was refused.
C25_Witness ==
    /\ resp = Response("onboard_owner", UsernameTaken)
    /\ Cardinality(companies) = 1
    /\ Len(credentials) = 1
    /\ Len(invites) = 1
    /\ DOMAIN locations = {}
    /\ user_roles[1] = "owner"

\* C24. A close_shift that names an existing company and a shift of another
\* company answers "Shift not found" and leaves every shift as it is, an OPEN
\* shift past its deadline included; list_shifts(company_id) is exactly the
\* shifts whose company_id is the argument.
C24_CloseTenantIsolation ==
    [][ /\ \A c \in companies :
             /\ \A i \in ShiftIds : shifts[i].company_id = c <=> shifts[i] \in list_shifts(c)
             /\ \A sh \in list_shifts(c) : \E i \in ShiftIds : shifts[i] = sh
        /\ resp'.op = "close_shift" => \A c \in companies, sh \in ShiftIds :
             ( shifts[sh].company_id # c /\ close_shift(c, sh, TenantCloseRequest) )
             => /\ resp' = Response("close_shift", HTTPException(404, "Shift not found"))
                /\ shifts' = shifts ]_vars

\* Company 2 was refused the close of the shift of company 1, which is still
\* OPEN past its deadline, while company 2 has a shift of its own.
C24_Witness ==
    /\ resp = Response("close_shift", HTTPException(404, "Shift not found"))
    /\ \E i \in ShiftIds :
         /\ shifts[i].company_id = 1
         /\ shifts[i].status = "OPEN"
         /\ now > shifts[i].close_deadline_at
    /\ \E i \in ShiftIds : shifts[i].company_id = 2
    /\ \A i \in ShiftIds : shifts[i].company_id = 1 => shifts[i].status = "OPEN"

\* C30. Every stored shift names a user and a location of its own company.
C30_TenantIntegrity ==
    \A i \in ShiftIds :
        /\ users[shifts[i].user_id] = shifts[i].company_id
        /\ locations[shifts[i].location_id] = shifts[i].company_id

\* C28. end_at is null exactly for the OPEN shifts and close_data is non-null
\* exactly for the CLOSED shifts: an EXPIRED shift has end_at set and
\* close_data null.
C28_EndAtAndCloseData ==
    \A i \in ShiftIds :
        /\ shifts[i].end_at = None <=> shifts[i].status = "OPEN"
        /\ shifts[i].close_data # None <=> shifts[i].status = "CLOSED"

\* C29. Every CLOSED shift has start_at <= end_at <= close_deadline_at and
\* every EXPIRED shift has end_at > close_deadline_at, the clock advancing
\* between the clock reads of one close_shift call included.
C29_EndAtWithinDeadline ==
    \A i \in ShiftIds :
        /\ shifts[i].status = "CLOSED"
           => /\ shifts[i].end_at # None
              /\ shifts[i].start_at <= shifts[i].end_at[1]
              /\ shifts[i].end_at[1] <= shifts[i].close_deadline_at
        /\ shifts[i].status = "EXPIRED"
           => /\ shifts[i].end_at # None
              /\ shifts[i].end_at[1] > shifts[i].close_deadline_at

\* The update update_id of user_id is what run takes in this step.
Handles(update_id, user_id) ==
    \/ \E text \in DedupTexts : message_update(update_id, user_id, text, NoInvite)
    \/ callback_update(update_id, user_id, "role_owner")

\* C26. An update of a user whose update_id is at most the last_update_id
\* stored for that user is ignored: no message is sent, no request is posted
\* and nothing stored changes.  Every other update is handled and leaves its
\* update_id as the user's last_update_id, so that a session only changes to
\* one with a larger last_update_id, the reset of /start included.
C26_UpdateDedup ==
    [][ /\ \A u \in TelegramUsers :
             sessions'[u] # sessions[u]
             => /\ sessions'[u].last_update_id # None
                /\ \/ sessions[u].last_update_id = None
                   \/ sessions'[u].last_update_id[1] > sessions[u].last_update_id[1]
                /\ sent'.messages # <<>>
        /\ \A u \in TelegramUsers, id \in UpdateIds :
             IF sessions[u].last_update_id # None /\ id <= sessions[u].last_update_id[1]
             THEN Handles(id, u)
                  => /\ sent' = NothingSent
                     /\ UNCHANGED <<sessions, store, accounts, resp>>
             ELSE Handles(id, u) => sessions'[u].last_update_id = Some(id) ]_vars

\* User 1 sent /start in update 3, which reset the session and is its
\* last_update_id, and an update of user 1 was ignored after that, while
\* update 1 was handled for user 2.
C26_Witness ==
    /\ sent = NothingSent
    /\ sessions[1] = [Session EXCEPT !.step = Some("choose_role"), !.last_update_id = Some(3)]
    /\ sessions[2].last_update_id = Some(1)
    /\ sessions[2].step = Some("owner_company")

\* The place of a step in the owner form, 0 for any other step.
OwnerStep(session) ==
    IF session.step # None /\ \E i \in DOMAIN OwnerSteps : OwnerSteps[i] = session.step[1]
    THEN CHOOSE i \in DOMAIN OwnerSteps : OwnerSteps[i] = session.step[1]
    ELSE 0

\* C27. A session with role owner is at a step of the owner form.  A text
\* other than /start moves it to the next step of owner_company, owner_name,
\* owner_username, owner_password, owner_timezone, owner_location and posts
\* nothing; at owner_location it posts one onboarding request and the session
\* is reset to the empty one, whatever the backend answers.  No other update
\* posts an onboarding request.
C27_OwnerFormLinear ==
    [][ /\ \A u \in TelegramUsers : sessions[u].role = Some("owner") => OwnerStep(sessions[u]) > 0
        /\ \A u \in TelegramUsers, id \in UpdateIds :
             ( /\ sessions[u].role = Some("owner")
               /\ sessions[u].last_update_id = None \/ id > sessions[u].last_update_id[1]
               /\ \E text \in Texts(u) \ {"/Start"}, reply \in InviteReplies :
                    message_update(id, u, text, reply) )
             => IF OwnerStep(sessions[u]) < Len(OwnerSteps)
                THEN /\ OwnerStep(sessions'[u]) = OwnerStep(sessions[u]) + 1
                     /\ sessions'[u].role = Some("owner")
                     /\ sent'.requests = <<>>
                ELSE /\ Len(sent'.requests) = 1
                     /\ sent'.requests[1].url = "/api/onboarding/owner"
                     /\ sessions'[u] = [Session EXCEPT !.last_update_id = Some(id)]
        /\ ( /\ sent' # sent
             /\ \E i \in DOMAIN sent'.requests : sent'.requests[i].url = "/api/onboarding/owner" )
           => \E u \in TelegramUsers :
                /\ OwnerStep(sessions[u]) = Len(OwnerSteps)
                /\ sessions'[u] # sessions[u] ]_vars

\* User 1 filled the form in updates 1 to 7 with the username "-", which is
\* taken: the request was posted and rejected and the session is reset.
C27_Witness ==
    /\ Len(sent.requests) = 1
    /\ sent.requests[1].url = "/api/onboarding/owner"
    /\ sent.requests[1].payload.username = "-"
    /\ sent.messages = <<"onboarding_error">>
    /\ resp.status = 400
    /\ sessions[1] = [Session EXCEPT !.last_update_id = Some(7)]

\* C31. While a user has an OPEN shift, past its deadline or not, an
\* open_shift for that company and user answers "User already has an open
\* shift" and stores nothing.  A close_shift that changes an OPEN shift leaves
\* it CLOSED or EXPIRED, and once the user has no OPEN shift an open_shift
\* with valid data is answered 200 and stores an OPEN shift of the user.
C31_ReopenAfterEnd ==
    [][ /\ resp'.op = "open_shift"
           => \A c \in companies, p \in ShiftOpenRequest :
                open_shift(c, p)
                => IF \E i \in ShiftIds : /\ shifts[i].company_id = c
                                          /\ shifts[i].user_id = p.user_id
                                          /\ shifts[i].status = "OPEN"
                   THEN /\ resp' = Response("open_shift", AlreadyOpen)
                        /\ shifts' = shifts
                   ELSE /\ resp'.status = 200
                        /\ Len(shifts') = Len(shifts) + 1
                        /\ shifts'[Len(shifts')].status = "OPEN"
                        /\ shifts'[Len(shifts')].user_id = p.user_id
                        /\ shifts'[Len(shifts')].company_id = c
        /\ resp'.op = "close_shift"
           => \A i \in ShiftIds :
                shifts'[i] # shifts[i] => shifts[i].status = "OPEN" /\ Terminal(shifts'[i]) ]_vars

\* The first shift of a user was past its deadline and a close attempt left it
\* EXPIRED; the user then opened a second shift, which is past its deadline
\* too and still OPEN, and a further open_shift of the user was refused.
C31_Witness ==
    /\ Len(shifts) = 2
    /\ shifts[1].status = "EXPIRED"
    /\ shifts[2].status = "OPEN"
    /\ shifts[2].user_id = shifts[1].user_id
    /\ now > shifts[2].close_deadline_at
    /\ resp = Response("open_shift", AlreadyOpen)

\* The user has a passed attempt; in SpecPolicyChange it is on the monthly quiz
\* and less than 30 days old.
HasPassed(user_id) ==
    \E i \in DOMAIN quiz_attempts : quiz_attempts[i].user_id = user_id /\ quiz_attempts[i].passed

\* What a policy asks of a close payload by the user, the deadline aside.
CloseAnswerUnder(policy, user_id, payload) ==
    IF policy.tests_block_shift_closure /\ policy.monthly_test_required /\ ~HasPassed(user_id)
    THEN MonthlyOverdue
    ELSE IF policy.require_closing_checklist /\ payload.close_checklist = <<>>
    THEN HTTPException(400, "Closing checklist required")
    ELSE IF policy.require_close_photo /\ payload.close_photo_url = None
    THEN HTTPException(400, "Closing photo required")
    ELSE IF policy.require_cash_close /\ payload.cash_close_amount = None
    THEN HTTPException(400, "Closing cash amount required")
    ELSE Ok

\* C32. set_policy changes no shift, and no call changes the start_at or the
\* close_deadline_at of a stored shift.  close_shift on an OPEN shift tests the
\* deadline stored in the shift and then answers by the policy stored for the
\* company when it is called: its compliance gate and its required fields.
C32_PolicyChange ==
    [][ /\ resp'.op = "set_policy" => shifts' = shifts
        /\ \A i \in ShiftIds :
             /\ shifts'[i].start_at = shifts[i].start_at
             /\ shifts'[i].close_deadline_at = shifts[i].close_deadline_at
        /\ resp'.op = "close_shift"
           => \A sh \in ShiftIds, p \in PolicyChangeCloseRequests :
                ( shifts[sh].status = "OPEN" /\ close_shift(1, sh, p) )
                => resp' = Response("close_shift",
                       IF now > shifts[sh].close_deadline_at THEN ShiftExpired
                       ELSE CloseAnswerUnder(IF 1 \in DOMAIN policies THEN policies[1]
                                             ELSE PolicySettings,
                                             shifts[sh].user_id, p)) ]_vars

\* A shift opened under LenientPolicy (its deadline is its start) is still
\* OPEN; the admin has stored StrictPolicy since, and a close without a photo
\* was refused for it.
C32_Witness ==
    /\ 1 \in DOMAIN policies
    /\ policies[1] = StrictPolicy
    /\ resp = Response("close_shift", HTTPException(400, "Closing photo required"))
    /\ \E i \in ShiftIds :
         /\ shifts[i].status = "OPEN"
         /\ shifts[i].close_deadline_at = shifts[i].start_at
    /\ \A i \in ShiftIds : shifts[i].status = "OPEN"
    /\ Len(shifts) = 1

\* C33. In every saved session the step is None, choose_role or a step of the
\* owner form, the staff form or the staff menu; the role is None at None and
\* choose_role, owner at the owner_ steps and staff at the staff_ steps.
C33_RoleStepConsistency ==
    \A u \in TelegramUsers :
        /\ \/ sessions[u].step \in {None, Some("choose_role")}
           \/ OwnerStep(sessions[u]) > 0
           \/ sessions[u].step[1] \in StaffSteps
        /\ sessions[u].step \in {None, Some("choose_role")} => sessions[u].role = None
        /\ OwnerStep(sessions[u]) > 0 => sessions[u].role = Some("owner")
        /\ ( sessions[u].step # None /\ sessions[u].step[1] \in StaffSteps )
           => sessions[u].role = Some("staff")

\* User 1 left the owner form after the owner's name by the staff button, joined with
\* an invite code and is reading the recipes.
C33_Witness ==
    /\ sessions[1].step = Some("staff_recipes")
    /\ sessions[1].role = Some("staff")
    /\ "owner_name" \in DOMAIN sessions[1].data
    /\ "staff_name" \in DOMAIN sessions[1].data

\* C34. A session at step owner_location holds company_name, owner_name,
\* username and password in its data, and a session at step staff_name holds
\* invite_code: the requests of lines 392-398 and 451-455 read no missing key.
C34_FormDataComplete ==
    \A u \in TelegramUsers :
        /\ sessions[u].step = Some("owner_location")
           => {"company_name", "owner_name", "username", "password"} \subseteq DOMAIN sessions[u].data
        /\ sessions[u].step = Some("staff_name")
           => "invite_code" \in DOMAIN sessions[u].data

\* User 1 pressed the owner button and filled the owner form up to
\* owner_location, the last text in update 7.
C34_Witness ==
    /\ sessions[1].step = Some("owner_location")
    /\ sessions[1].last_update_id = Some(7)
    /\ DOMAIN sessions[1].data = {"company_name", "owner_name", "username", "password", "timezone"}

\* C35. A handled text message " /Start " (a capital, spaces around it), the
\* update whose id the session stores, leaves the session with step
\* choose_role, no role and no data, whatever it held before, sends the role
\* prompt and posts no request: nothing stored by the backend changes.
C35_StartResets ==
    [][ \A u \in TelegramUsers :
          ( /\ sessions'[u].last_update_id # None
            /\ \/ sessions[u].last_update_id = None
               \/ sessions'[u].last_update_id[1] > sessions[u].last_update_id[1]
            /\ message_update(sessions'[u].last_update_id[1], u, " /Start ", NoInvite) )
          => /\ sessions'[u] = [Session EXCEPT !.step = Some("choose_role"),
                                               !.last_update_id = sessions'[u].last_update_id]
             /\ sent' = [messages |-> <<"role_prompt">>, requests |-> <<>>]
             /\ UNCHANGED <<store, accounts, resp>> ]_vars

\* User 1 is asked for the role again in update 7, the session empty.
C35_Witness ==
    /\ sessions[1] = [Session EXCEPT !.step = Some("choose_role"), !.last_update_id = Some(7)]
    /\ sent = [messages |-> <<"role_prompt">>, requests |-> <<>>]

====
